---- MODULE Spec2Model ----
(***************************************************************************)
(* A model of anystore: the worker pool (anystore/worker.py), the mirror   *)
(* built on it (anystore/mirror.py) and the store contract                 *)
(* (anystore/store/base.py with its backends and anystore/serialize.py).   *)
(*                                                                         *)
(* Threads of a Worker run: thread 0 is the producer, threads 1..nCons are *)
(* the consumers; the caller of run() is modelled by runState / joinIdx.   *)
(* Tasks are the indices 1..Len(tasks); 0 stands for the None sentinel.    *)
(***************************************************************************)
EXTENDS Integers, Sequences, FiniteSets, TLC

\* ------------------------------------------------------------------ bounds
MaxConsumers == 2

MaxTasks == 3

\* ---------------------------------------------------------------- constants
Sentinel == 0

Producer == 0

Consumers == 1..MaxConsumers

Threads == {Producer} \cup Consumers

CounterNames == {"pending", "done", "errors", "items"}

VARIABLES
    mode,         \* "plain": Worker with a user handler; "mirror": MirrorWorker
    handlerKind,  \* "default": handle_error is None; "absorb": a handler that swallows
    nCons,        \* Worker.consumer_threads
    nTasks,       \* number of tasks the task source yields
    noneAt,       \* the position of a task that is None in the source (0: no such task)
    runState,     \* run(): "idle", "joining", "returned", "raised"
    joinIdx,      \* run(): the consumer being joined; nCons + 1 = the producer
    status,       \* WorkerStatus: running, exc
    queue,        \* Worker.queue (unbounded FIFO)
    counter,      \* Worker.counter
    inCount,      \* Worker.lock: the threads inside the `with self.lock` of count()
    pc,           \* position of each thread
    cur,          \* the task a thread holds (0 when it holds none)
    tmp,          \* the value a thread read inside a read-modify-write (0 outside)
    prodIdx,      \* number of tasks the producer has taken from the source
    handled,      \* per task: how often it was passed to handle_task
    requested,    \* per counter: sum of the deltas passed to count()
    source,       \* MirrorWorker.source: key -> bytes
    target,       \* MirrorWorker.target: key -> bytes
    target0,      \* the target as it was when the mirror started
    overwrite,    \* MirrorWorker.overwrite
    prefix,       \* MirrorWorker.prefix
    excludePrefix,\* MirrorWorker.exclude_prefix
    skipped,      \* MirrorWorker.skipped
    mirrored,     \* MirrorWorker.mirrored
    failed,       \* the keys whose copy raised in handle_task
    sBackend,     \* the store's backend: "fs", "memory", "redis", "sql"
    sMode,        \* StoreModel.serialization_mode
    sRaise,       \* StoreModel.raise_on_nonexist
    sReadonly,    \* StoreModel.readonly
    sStoreNone,   \* the store_none_values setting read by put
    sData,        \* the backend's content: resolved key -> stored bytes
    sWritten,     \* the keys ever written to the backend
    sRes,         \* the last store call: op, key, raise_on_nonexist argument, outcome
    sLastWrite,   \* the last call of a mutating operation (put, pop, delete, touch, open)
    sMeta,        \* per key: the sql row's timestamp and ttl, the deadline of memory or redis
    now,          \* the clock
    sData0,       \* the contents of the store when it was opened
    sDefaultTtl,  \* StoreModel.default_ttl (0: none)
    fnRan,        \* anycache: invocations of the wrapped function in the last decorated call
    fnRuns,       \* anycache: invocations of the wrapped function so far, per computed key
    sqlRows,      \* SqlStore: the keys of the committed rows of the table
    sqlConn,      \* SqlStore: per thread, its cached connection and that
                  \* connection's uncommitted deletions
    sqlOpened,    \* SqlStore: per thread, the connections it has opened so far
    sqlRes,       \* SqlStore: the last driver operation
    zArchive,     \* ZipStore: the members of the archive, in the order written
    zThread,      \* ZipStore: per thread, its position in _writer, key and handle
    zPutOk,       \* ZipStore: per key, the puts that returned without an error
    rPrefix,      \* RedisStore: the redis_prefix of each of two stores on one server
    rServer,      \* the redis server: key -> the store that wrote its value
    rRes          \* RedisStore: the last call, with the writers of what it observed

cfg == <<mode, handlerKind, nCons, nTasks, noneAt>>

wvars == <<cfg, runState, joinIdx, status, queue, counter, inCount, pc, cur, tmp,
           prodIdx, handled, requested>>

mcfg == <<source, target0, overwrite, prefix, excludePrefix>>

mvars == <<mcfg, target, skipped, mirrored, failed>>

scfg == <<sBackend, sMode, sRaise, sReadonly, sStoreNone, sData0, sDefaultTtl>>

dvars == <<fnRan, fnRuns>>

svars == <<scfg, sData, sWritten, sRes, sLastWrite, sMeta, now, dvars>>

sqlvars == <<sqlRows, sqlConn, sqlOpened, sqlRes>>

zvars == <<zArchive, zThread, zPutOk>>

rvars == <<rPrefix, rServer, rRes>>

qvars == <<sqlvars, zvars, rvars>>

vars == <<wvars, mvars, svars, qvars>>

\* ------------------------------------------------------------ the stores
\* Keys are sequences of characters, so that str.startswith can be computed.
KeyAX == <<"a", "/", "x">>

KeyAB == <<"a", "b">>

KeyB == <<"b">>

\* the keys of the model, in the order a listing yields them
KeySeq == <<KeyAX, KeyAB, KeyB>>

Keys == {KeySeq[i] : i \in 1..Len(KeySeq)}

\* `None` or "" for a prefix argument
NoPrefix == <<>>

PrefixA == <<"a">>

\* str.startswith
StartsWith(k, p) == Len(p) <= Len(k) /\ SubSeq(k, 1, Len(p)) = p

\* ------------------------------------------------------------ key addressing
\* str.strip("/")
RECURSIVE LStrip(_)
LStrip(s) == IF s # <<>> /\ Head(s) = "/" THEN LStrip(Tail(s)) ELSE s

RECURSIVE RStrip(_)
RStrip(s) ==
    IF s # <<>> /\ s[Len(s)] = "/" THEN RStrip(SubSeq(s, 1, Len(s) - 1)) ELSE s

Strip(s) == RStrip(LStrip(s))

\* urllib.parse.unquote, for the escapes of the model: %62 is b, %2F is /
RECURSIVE Unquote(_)
Unquote(s) ==
    IF s = <<>> THEN <<>>
    ELSE IF Len(s) >= 3 /\ SubSeq(s, 1, 3) = <<"%", "6", "2">>
            THEN <<"b">> \o Unquote(SubSeq(s, 4, Len(s)))
    ELSE IF Len(s) >= 3 /\ SubSeq(s, 1, 3) = <<"%", "2", "F">>
            THEN <<"/">> \o Unquote(SubSeq(s, 4, Len(s)))
    ELSE <<Head(s)>> \o Unquote(Tail(s))

\* the backends' _get_key_prefix(), one element of the key: the uri of a file
\* system store, "anystore" for memory and redis, "" for sql and zip
GetKeyPrefix(backend) ==
    CASE backend = "fs" -> <<"file:///store">>
      [] backend \in {"memory", "redis"} -> <<"anystore">>
      [] OTHER -> <<>>

\* BaseStore.get_key: unquote(f"{prefix}/{key}".strip("/"))
GetKey(backend, k) == Unquote(Strip(GetKeyPrefix(backend) \o <<"/">> \o k))

\* a file system takes a run of slashes in a path for one
RECURSIVE Collapse(_)
Collapse(s) ==
    IF Len(s) < 2 THEN s
    ELSE IF s[1] = "/" /\ s[2] = "/" THEN Collapse(Tail(s))
    ELSE <<Head(s)>> \o Collapse(Tail(s))

\* the entry of the backend that get_key(k) addresses, named by what follows
\* the prefix
BackendKey(backend, k) ==
    LET addr == GetKey(backend, k)
        p == GetKeyPrefix(backend)
        rel == IF p = <<>> THEN addr
               ELSE IF Len(addr) <= Len(p) + 1 THEN <<>>
               ELSE SubSeq(addr, Len(p) + 2, Len(addr))
    IN  IF backend = "fs" THEN Strip(Collapse(rel)) ELSE rel

\* a store with no key
EmptyStore == <<>>

\* the bytes a source key holds
Content(k) ==
    CASE k = KeyAX -> "ax"
      [] k = KeyAB -> "ab"
      [] k = KeyB -> "b"

\* BaseStore.exists
StoreExists(store, k) == k \in DOMAIN store

\* the store without key k
StoreRemove(store, k) == [x \in (DOMAIN store) \ {k} |-> store[x]]

\* the store with bytes v at key k
StoreWrite(store, k, v) ==
    [x \in (DOMAIN store) \cup {k} |-> IF x = k THEN v ELSE store[x]]

\* fs.Store._iterate_keys without glob: the walk below the directory `prefix'
\* yields the keys in it and in its sub-directories, minus those that start with
\* exclude_prefix
IterateKeys(store, pre, excl) ==
    LET Match(k) ==
            /\ k \in DOMAIN store
            /\ pre = NoPrefix \/ StartsWith(k, pre \o <<"/">>)
            /\ excl = NoPrefix \/ ~StartsWith(k, excl)
    IN  SelectSeq(KeySeq, Match)

\* ---------------------------------------------------------- Python values
\* A value is its type t and its content v. Bytes are their literal content; the
\* bytes that cloudpickle.dumps gives for a value x have x's content and p = x's
\* type (for all other values p is empty).
PyNone == [t |-> "none", v |-> "", p |-> ""]

PyBytes(s) == [t |-> "bytes", v |-> s, p |-> ""]

PyStr(s) == [t |-> "str", v |-> s, p |-> ""]

PyInt(s) == [t |-> "int", v |-> s, p |-> ""]

PyBool(b) == [t |-> "bool", v |-> IF b THEN "True" ELSE "False", p |-> ""]

\* datetime.now(), the value touch stores
PyDatetime == [t |-> "datetime", v |-> "now", p |-> ""]

\* the outcome of a call: it returns a value or raises an exception
Return(x) == [kind |-> "return", exc |-> "", val |-> x]

Raise(e) == [kind |-> "raise", exc |-> e, val |-> PyNone]

\* anystore.exceptions.DoesNotExist derives from FileNotFoundError, so that
\* `except FileNotFoundError` catches both
IsFileNotFound(e) == e \in {"FileNotFoundError", "DoesNotExist"}

\* ------------------------------------------------------------ serialization
Modes == {"auto", "raw", "pickle", "json"}

\* the texts of the model, and a text as a JSON string
Texts == {"foo", "1", "true", "null", "now", ""}

JsonQuoted(s) == "\"" \o s \o "\""

\* orjson.dumps: JSON text of a number, of None, of a text, of a datetime and of
\* a map; bytes are not JSON serializable
OrjsonDumps(x) ==
    CASE x.t \in {"int", "float", "dict"} -> Return(PyBytes(x.v))
      [] x.t = "none" -> Return(PyBytes("null"))
      [] x.t = "bool" -> Return(PyBytes(IF x.v = "True" THEN "true" ELSE "false"))
      [] x.t \in {"str", "datetime"} -> Return(PyBytes(JsonQuoted(x.v)))
      [] OTHER -> Raise("JSONEncodeError")

\* orjson.loads: the input must be bytes or str holding JSON
OrjsonLoads(x) ==
    IF x.t \notin {"bytes", "str"} \/ x.p # ""
       THEN Raise("JSONDecodeError")
       ELSE CASE x.v = "1" -> Return(PyInt("1"))
              [] x.v = "1.1" -> Return([t |-> "float", v |-> "1.1", p |-> ""])
              [] x.v = "null" -> Return(PyNone)
              [] x.v = "true" -> Return(PyBool(TRUE))
              [] x.v = "false" -> Return(PyBool(FALSE))
              [] x.v = "{\"a\":1}" -> Return([t |-> "dict", v |-> x.v, p |-> ""])
              [] \E s \in Texts : x.v = JsonQuoted(s) ->
                    Return(PyStr(CHOOSE s \in Texts : x.v = JsonQuoted(s)))
              [] OTHER -> Raise("JSONDecodeError")

\* cloudpickle.dumps
CloudpickleDumps(x) == Return([t |-> "bytes", v |-> x.v, p |-> x.t])

\* cloudpickle.loads: a bytes-like object is required, and it must hold a pickle
CloudpickleLoads(x) ==
    IF x.t # "bytes"
       THEN Raise("TypeError")
       ELSE IF x.p # ""
               THEN Return([t |-> x.p, v |-> x.v, p |-> ""])
               ELSE Raise("UnpicklingError")

\* bytes.decode: the bytes of a pickle are no UTF-8 text
BytesDecode(x) == IF x.p # "" THEN Raise("UnicodeDecodeError") ELSE Return(PyStr(x.v))

\* str.encode
StrEncode(x) == PyBytes(x.v)

\* serialize.to_store without model and serialization_func
ToStore(x, m) ==
    CASE m = "json" -> OrjsonDumps(x)
      [] m = "pickle" -> CloudpickleDumps(x)
      [] m = "raw" -> IF x.t = "bytes" THEN Return(x) ELSE Raise("ValueError")
      [] OTHER ->
            IF x.t = "bytes" THEN Return(x)
            ELSE IF x.t = "str" THEN Return(StrEncode(x))
            ELSE IF OrjsonDumps(x).kind = "return" THEN OrjsonDumps(x)
            ELSE CloudpickleDumps(x)

\* serialize.from_store without model and deserialization_func
FromStore(x, m) ==
    CASE m = "raw" -> Return(x)
      [] m = "pickle" -> CloudpickleLoads(x)
      [] m = "json" -> OrjsonLoads(x)
      [] OTHER ->
            IF OrjsonLoads(x).kind = "return" THEN OrjsonLoads(x)
            ELSE IF CloudpickleLoads(x).kind = "return" THEN CloudpickleLoads(x)
            ELSE IF x.t = "bytes" /\ BytesDecode(x).kind = "return" THEN BytesDecode(x)
            ELSE Return(x)

\* ------------------------------------------------- SqlStore's connections
MaxSqlThreads == 2

MaxConnections == 2

SqlThreads == 1..MaxSqlThreads

SqlKeys == {<<"a">>, <<"b">>}

\* ------------------------------------------------- ZipStore's writers
MaxZipThreads == 2

ZipThreads == 1..MaxZipThreads

ZipKeys == {<<"a">>, <<"b">>}

\* the bytes of a member two handlers wrote over each other
Corrupt == 0

ZipIdle == [pc |-> "idle", key |-> <<>>, snap |-> <<>>]

\* ------------------------------------------ RedisStore on a shared server
RedisStores == {1, 2}

\* the redis_prefix of the two stores: unrelated prefixes, or one that is a
\* path prefix of the other
RedisPrefixes == {<< <<"a">>, <<"c">> >>, << <<"a">>, <<"a", "/", "b">> >>}

RedisKeys == {<<"x">>, <<"b", "/", "x">>}

RedisCall(op, i, k, seen) == [op |-> op, store |-> i, key |-> k, seen |-> seen]

\* no thread has used the relational driver, the archive or the shared server
IdleDrivers ==
    /\ rPrefix = << <<>>, <<>> >>
    /\ rServer = <<>>
    /\ rRes = RedisCall("none", 0, <<>>, {})
    /\ zArchive = <<>>
    /\ zThread = [t \in ZipThreads |-> ZipIdle]
    /\ zPutOk = [k \in ZipKeys |-> 0]
    /\ sqlRows = {}
    /\ sqlConn = [t \in SqlThreads |-> [open |-> FALSE, deleted |-> {}]]
    /\ sqlOpened = [t \in SqlThreads |-> 0]
    /\ sqlRes = [op |-> "none", thread |-> 0, key |-> <<>>, conn |-> "none",
                 found |-> FALSE, keys |-> {}]

\* what a key_func returns: None, or a key (the empty text included)
NoKey == [none |-> TRUE, k |-> <<>>]

EmptyKey == [none |-> FALSE, k |-> <<>>]

DecKeys == {NoKey, EmptyKey, [none |-> FALSE, k |-> KeyB]}

\* no decorated function has been called
NoDecorated ==
    /\ fnRan = 0
    /\ fnRuns = [kf \in DecKeys |-> 0]

\* no store call has been made
NoCall == [op |-> "none", key |-> <<>>, arg |-> "unset", val |-> PyNone, ttl |-> 0,
           at |-> 0, out |-> Return(PyNone), items |-> <<>>, before |-> EmptyStore]

NoStore ==
    /\ IdleDrivers
    /\ sBackend = "fs"
    /\ sMode = "auto"
    /\ sRaise = TRUE
    /\ sReadonly = FALSE
    /\ sStoreNone = TRUE
    /\ sDefaultTtl = 0
    /\ sData0 = EmptyStore
    /\ sData = EmptyStore
    /\ sWritten = {}
    /\ sRes = NoCall
    /\ sLastWrite = NoCall
    /\ sMeta = EmptyStore
    /\ now = 1
    /\ NoDecorated

\* ------------------------------------------------------------ WorkerStatus
\* WorkerStatus.start
StatusStart(st) == [st EXCEPT !.running = TRUE]

\* WorkerStatus.stop: exc = str(exc), so a missing exception is stored as "None"
StatusStop(st, exc) == [st EXCEPT !.running = FALSE, !.exc = exc]

\* ------------------------------------------------------------ Worker.count
\* the positions at which a thread is calling count(), with the counter and delta
CountPcs == {"q_pending", "h_items", "ok_pending", "ok_done", "err_pending", "err_errors"}

CountName(p) ==
    CASE p \in {"q_pending", "ok_pending", "err_pending"} -> "pending"
      [] p = "h_items" -> "items"
      [] p = "ok_done" -> "done"
      [] p = "err_errors" -> "errors"

\* a queue_task that does not count the task it puts
CountDeltaPutUncounted(p) ==
    CASE p \in {"ok_pending", "err_pending", "h_items"} -> -1
      [] p = "q_pending" -> 0
      [] OTHER -> 1

CountDelta(p) ==
    CASE p \in {"ok_pending", "err_pending", "h_items"} -> -1
      [] OTHER -> 1

\* consume(): after a successful handle_task, count(pending=-1) then count(done=1);
\* after a raising one, count(pending=-1), count(errors=1), then exception(task, e)
CountNextNoErrors(p) ==
    CASE p = "q_pending" -> "put"
      [] p = "h_items" -> "h_body"
      [] p = "ok_pending" -> "ok_done"
      [] p = "ok_done" -> "get"
      [] p = "err_pending" -> "exception"
      [] p = "err_errors" -> "exception"

CountNext(p) ==
    CASE p = "q_pending" -> "put"
      [] p = "h_items" -> "h_body"
      [] p = "ok_pending" -> "ok_done"
      [] p = "ok_done" -> "get"
      [] p = "err_pending" -> "err_errors"
      [] p = "err_errors" -> "exception"

\* `with self.lock`: the lock can be taken when no thread holds it
UnguardedCount(t) == TRUE

LockFree(t) == inCount = {}

\* with self.lock: ... self.counter.update(**kwargs) reads the counter
CountEnter(t) ==
    /\ pc[t] \in CountPcs
    /\ t \notin inCount
    /\ LockFree(t)
    /\ inCount' = inCount \cup {t}
    /\ tmp' = [tmp EXCEPT ![t] = counter[CountName(pc[t])]]
    /\ requested' = [requested EXCEPT ![CountName(pc[t])] = @ + CountDelta(pc[t])]
    /\ UNCHANGED svars
    /\ UNCHANGED <<cfg, runState, joinIdx, status, queue, counter, pc, cur, prodIdx,
                   handled, mvars, qvars>>

\* ... writes it back and leaves the with block
CountExit(t) ==
    /\ pc[t] \in CountPcs
    /\ t \in inCount
    /\ counter' = [counter EXCEPT ![CountName(pc[t])] = tmp[t] + CountDelta(pc[t])]
    /\ inCount' = inCount \ {t}
    /\ pc' = [pc EXCEPT ![t] = CountNext(pc[t])]
    /\ tmp' = [tmp EXCEPT ![t] = 0]
    /\ UNCHANGED svars
    /\ UNCHANGED <<cfg, runState, joinIdx, status, queue, cur, prodIdx, handled,
                   requested, mvars, qvars>>

\* ---------------------------------------------------------- Worker.produce
\* Worker.get_tasks: the task source, here the tasks 1..nTasks; a task that is
\* None is the very value produce() puts as the sentinel
GetTasks == [i \in 1..nTasks |-> IF i = noneAt THEN Sentinel ELSE i]

\* produce(): the for loop takes the next task and calls queue_task, which counts it
ProduceNext ==
    /\ pc[Producer] = "next"
    /\ prodIdx < Len(GetTasks)
    /\ prodIdx' = prodIdx + 1
    /\ cur' = [cur EXCEPT ![Producer] = GetTasks[prodIdx + 1]]
    /\ pc' = [pc EXCEPT ![Producer] = "q_pending"]
    /\ UNCHANGED svars
    /\ UNCHANGED <<cfg, runState, joinIdx, status, queue, counter, inCount, tmp, handled,
                   requested, mvars, qvars>>

\* queue_task(): self.queue.put(task)
ProducePut ==
    /\ pc[Producer] = "put"
    /\ queue' = Append(queue, cur[Producer])
    /\ cur' = [cur EXCEPT ![Producer] = 0]
    /\ pc' = [pc EXCEPT ![Producer] = "next"]
    /\ UNCHANGED svars
    /\ UNCHANGED <<cfg, runState, joinIdx, status, counter, inCount, tmp, prodIdx,
                   handled, requested, mvars, qvars>>

\* produce(): the source is exhausted, self.queue.put(None) and the thread ends
ProduceSentinel ==
    /\ pc[Producer] = "next"
    /\ prodIdx = Len(GetTasks)
    /\ queue' = Append(queue, Sentinel)
    /\ pc' = [pc EXCEPT ![Producer] = "done"]
    /\ UNCHANGED svars
    /\ UNCHANGED <<cfg, runState, joinIdx, status, counter, inCount, cur, tmp, prodIdx,
                   handled, requested, mvars, qvars>>

\* produce(): get_tasks() raises while it is enumerated; the exception leaves
\* produce() before queue.put(None) and RaisingThread.run keeps it in _exc
ProduceCrash ==
    /\ mode = "plain"
    /\ pc[Producer] = "next"
    /\ pc' = [pc EXCEPT ![Producer] = "crashed"]
    /\ UNCHANGED svars
    /\ UNCHANGED <<cfg, runState, joinIdx, status, queue, counter, inCount, cur, tmp,
                   prodIdx, handled, requested, mvars, qvars>>

\* ---------------------------------------------------------- Worker.consume
\* the first position of handle_task
HandlerEntry == IF mode = "mirror" THEN "m_exists" ELSE "h_items"

\* the positions at which a consumer is inside handle_task
HandlerPcs == {"h_items", "h_body", "m_exists", "m_open", "m_write",
               "m_skip_rd", "m_skip_wr", "m_mir_rd", "m_mir_wr"}

\* a queue whose get() hands a task out without removing it
ConsumeGetKeepsTask(c) ==
    /\ c \in 1..nCons
    /\ pc[c] = "get"
    /\ queue # <<>>
    /\ queue' = IF Head(queue) = Sentinel THEN Tail(queue) ELSE queue
    /\ cur' = [cur EXCEPT ![c] = Head(queue)]
    /\ IF Head(queue) = Sentinel
          THEN /\ pc' = [pc EXCEPT ![c] = "reput"]
               /\ UNCHANGED handled
          ELSE /\ pc' = [pc EXCEPT ![c] = HandlerEntry]
               /\ handled' = [handled EXCEPT ![Head(queue)] = @ + 1]
    /\ UNCHANGED svars
    /\ UNCHANGED <<cfg, runState, joinIdx, status, counter, inCount, tmp, prodIdx,
                   requested, mvars, qvars>>

\* consume(): task = self.queue.get() blocks while the queue is empty; a task is
\* passed to handle_task, the sentinel is kept for the next step
ConsumeGet(c) ==
    /\ c \in 1..nCons
    /\ pc[c] = "get"
    /\ queue # <<>>
    /\ queue' = Tail(queue)
    /\ cur' = [cur EXCEPT ![c] = Head(queue)]
    /\ IF Head(queue) = Sentinel
          THEN /\ pc' = [pc EXCEPT ![c] = "reput"]
               /\ UNCHANGED handled
          ELSE /\ pc' = [pc EXCEPT ![c] = HandlerEntry]
               /\ handled' = [handled EXCEPT ![Head(queue)] = @ + 1]
    /\ UNCHANGED svars
    /\ UNCHANGED <<cfg, runState, joinIdx, status, counter, inCount, tmp, prodIdx,
                   requested, mvars, qvars>>

\* consume(): self.queue.put(task)  # notify other consumers
ConsumeReput(c) ==
    /\ pc[c] = "reput"
    /\ queue' = Append(queue, Sentinel)
    /\ pc' = [pc EXCEPT ![c] = "check"]
    /\ UNCHANGED svars
    /\ UNCHANGED <<cfg, runState, joinIdx, status, counter, inCount, cur, tmp, prodIdx,
                   handled, requested, mvars, qvars>>

\* a consumer that leaves at the sentinel whatever pending is
ConsumeCheckAlwaysBreaks(c) ==
    /\ pc[c] = "check"
    /\ pc' = [pc EXCEPT ![c] = "exit"]
    /\ UNCHANGED svars
    /\ UNCHANGED <<cfg, runState, joinIdx, status, queue, counter, inCount, cur, tmp,
                   prodIdx, handled, requested, mvars, qvars>>

\* consume(): if self.counter["pending"] < 1: break (read without the lock)
ConsumeCheck(c) ==
    /\ pc[c] = "check"
    /\ pc' = [pc EXCEPT ![c] = IF counter["pending"] < 1 THEN "exit" ELSE "get"]
    /\ UNCHANGED svars
    /\ UNCHANGED <<cfg, runState, joinIdx, status, queue, counter, inCount, cur, tmp,
                   prodIdx, handled, requested, mvars, qvars>>

\* handle_task of a plain Worker returns
HandleReturn(c) ==
    /\ pc[c] = "h_body"
    /\ cur' = [cur EXCEPT ![c] = 0]
    /\ pc' = [pc EXCEPT ![c] = "ok_pending"]
    /\ UNCHANGED svars
    /\ UNCHANGED <<cfg, runState, joinIdx, status, queue, counter, inCount, tmp,
                   prodIdx, handled, requested, mvars, qvars>>

\* handle_task of a plain Worker raises
HandleRaise(c) ==
    /\ pc[c] = "h_body"
    /\ cur' = [cur EXCEPT ![c] = 0]
    /\ pc' = [pc EXCEPT ![c] = "err_pending"]
    /\ UNCHANGED svars
    /\ UNCHANGED <<cfg, runState, joinIdx, status, queue, counter, inCount, tmp,
                   prodIdx, handled, requested, mvars, qvars>>

\* Worker.exception(task, e): without handle_error it raises, which ends consume()
\* and the thread (RaisingThread.run keeps the exception); a handler that absorbs
\* the exception lets the loop go on
ExceptionReturns(kind) == kind = "absorb"

ConsumeException(c) ==
    /\ pc[c] = "exception"
    /\ pc' = [pc EXCEPT ![c] = IF ExceptionReturns(handlerKind) THEN "get" ELSE "dead"]
    /\ UNCHANGED svars
    /\ UNCHANGED <<cfg, runState, joinIdx, status, queue, counter, inCount, cur, tmp,
                   prodIdx, handled, requested, mvars, qvars>>

\* -------------------------------------------------------------- Worker.run
Ended == {"returned", "raised"}

\* a thread that has finished, with (`dead', `crashed') or without an exception
Finished(t) == pc[t] \in {"exit", "dead", "done", "crashed"}

\* run(): the except clause stores the exception, the finally clause stops again
\* without one
StopAfterRaise(st) == StatusStop(StatusStop(st, "exc"), "None")

\* run(): status.start(), the consumer threads and then the producer are started.
\* A consumer can do nothing before the producer's first put, so starting the
\* threads is one step.
RunStart ==
    /\ runState = "idle"
    /\ runState' = "joining"
    /\ status' = StatusStart(status)
    /\ pc' = [t \in Threads |->
                IF t = Producer THEN "next" ELSE IF t <= nCons THEN "get" ELSE pc[t]]
    /\ joinIdx' = 1
    /\ UNCHANGED svars
    /\ UNCHANGED <<cfg, queue, counter, inCount, cur, tmp, prodIdx, handled, requested,
                   mvars, qvars>>

\* run(): consumer.join() waits for the thread; RaisingThread.join re-raises the
\* thread's exception, which goes to self.exception(None, e): without handle_error
\* that raises e out of the loop, into `except Exception` and `finally`
RunJoinConsumer ==
    /\ runState = "joining"
    /\ joinIdx <= nCons
    /\ Finished(joinIdx)
    /\ IF pc[joinIdx] = "dead" /\ ~ExceptionReturns(handlerKind)
          THEN /\ runState' = "raised"
               /\ status' = StopAfterRaise(status)
               /\ UNCHANGED joinIdx
          ELSE /\ joinIdx' = joinIdx + 1
               /\ UNCHANGED <<runState, status>>
    /\ UNCHANGED svars
    /\ UNCHANGED <<cfg, queue, counter, inCount, pc, cur, tmp, prodIdx, handled,
                   requested, mvars, qvars>>

\* run(): producer.join(), outside the inner try: a crashed producer raises into
\* `except Exception`; otherwise `finally` stops the status and run() returns
RunJoinProducer ==
    /\ runState = "joining"
    /\ joinIdx = nCons + 1
    /\ Finished(Producer)
    /\ IF pc[Producer] = "crashed"
          THEN /\ runState' = "raised"
               /\ status' = StopAfterRaise(status)
          ELSE /\ runState' = "returned"
               /\ status' = StatusStop(status, "None")
    /\ UNCHANGED svars
    /\ UNCHANGED <<cfg, joinIdx, queue, counter, inCount, pc, cur, tmp, prodIdx,
                   handled, requested, mvars, qvars>>

\* ------------------------------------------------------- the plain Worker
InitWorkerState ==
    /\ runState = "idle"
    /\ joinIdx = 0
    /\ status = [running |-> FALSE, exc |-> "unset"]
    /\ queue = <<>>
    /\ counter = [n \in CounterNames |-> 0]
    /\ inCount = {}
    /\ pc = [t \in Threads |-> "unstarted"]
    /\ cur = [t \in Threads |-> 0]
    /\ tmp = [t \in Threads |-> 0]
    /\ prodIdx = 0
    /\ handled = [i \in 1..nTasks |-> 0]
    /\ requested = [n \in CounterNames |-> 0]

NoMirror ==
    /\ source = <<>>
    /\ target = <<>>
    /\ target0 = <<>>
    /\ overwrite = FALSE
    /\ prefix = <<>>
    /\ excludePrefix = <<>>
    /\ skipped = 0
    /\ mirrored = 0
    /\ failed = {}

InitWorker ==
    /\ mode = "plain"
    /\ handlerKind \in {"default", "absorb"}
    /\ nCons \in 1..MaxConsumers
    /\ nTasks \in 1..MaxTasks
    /\ noneAt = 0
    /\ InitWorkerState
    /\ NoMirror
    /\ NoStore

\* a Worker over any task source, those that yield None as one of their tasks
\* included
InitNoneTask ==
    /\ mode = "plain"
    /\ handlerKind \in {"default", "absorb"}
    /\ nCons \in 1..MaxConsumers
    /\ nTasks \in 1..MaxTasks
    /\ noneAt \in 0..nTasks
    /\ InitWorkerState
    /\ NoMirror
    /\ NoStore

ThreadStep ==
    \/ ProduceNext
    \/ ProducePut
    \/ ProduceSentinel
    \/ \E t \in Threads : CountEnter(t)
    \/ \E t \in Threads : CountExit(t)
    \/ \E c \in Consumers : ConsumeGet(c)
    \/ \E c \in Consumers : ConsumeReput(c)
    \/ \E c \in Consumers : ConsumeCheck(c)
    \/ \E c \in Consumers : ConsumeException(c)

RunStep ==
    \/ RunStart
    \/ RunJoinConsumer
    \/ RunJoinProducer

NextWorker ==
    \/ ThreadStep
    \/ RunStep
    \/ ProduceCrash
    \/ \E c \in Consumers : HandleReturn(c)
    \/ \E c \in Consumers : HandleRaise(c)

SpecWorker == InitWorker /\ [][NextWorker]_vars

SpecNoneTask == InitNoneTask /\ [][NextWorker]_vars

\* the steps of one thread, for the fairness the operating system's scheduler gives
\* every runnable thread; a source that raises is not forced to
ProducerStep ==
    \/ ProduceNext
    \/ ProducePut
    \/ ProduceSentinel
    \/ CountEnter(Producer)
    \/ CountExit(Producer)

ConsumerStep(c) ==
    \/ CountEnter(c)
    \/ CountExit(c)
    \/ ConsumeGet(c)
    \/ ConsumeReput(c)
    \/ ConsumeCheck(c)
    \/ ConsumeException(c)
    \/ HandleReturn(c)
    \/ HandleRaise(c)

FairSpecWorker ==
    /\ InitWorker
    /\ [][NextWorker]_vars
    /\ WF_vars(RunStep)
    /\ WF_vars(ProducerStep)
    /\ \A c \in Consumers : WF_vars(ConsumerStep(c))

\* ------------------------------------------------------ claims: the Worker
\* C1: with an error handler that absorbs every exception and a source that yields
\* all its N tasks, run() never raises, the status it returns has
\* done + errors = N and pending = 0, and under every fair interleaving of the
\* producer and the consumers run() does return.
C1_AllCounted ==
    (handlerKind = "absorb" /\ pc[Producer] # "crashed") =>
        /\ runState # "raised"
        /\ runState = "returned" =>
              /\ counter["done"] + counter["errors"] = nTasks
              /\ counter["pending"] = 0

C1_AbsorbedErrorsReturn ==
    /\ []C1_AllCounted
    /\ (handlerKind = "absorb") ~> (runState = "returned" \/ pc[Producer] = "crashed")

C1_Witness ==
    /\ handlerKind = "absorb"
    /\ nCons = MaxConsumers
    /\ nTasks = MaxTasks
    /\ runState = "returned"
    /\ counter["errors"] >= 1
    /\ counter["done"] >= 1

\* C2: when run() ends, by returning or by raising, the producer and every consumer
\* have finished, so no consumer is still inside the task handler.
C2_RunEndsAfterAllThreads ==
    runState \in Ended =>
        /\ Finished(Producer)
        /\ \A c \in 1..nCons : Finished(c) /\ pc[c] \notin HandlerPcs

\* C3: once the task source has raised in the producer, run() does not block for
\* ever: until it has ended, some thread or run() itself can take a step.
C3_ProducerCrashAborts ==
    (pc[Producer] = "crashed" /\ runState = "joining") => ENABLED NextWorker

\* C4: a raising task never aborts its siblings, whatever the error handler: when
\* run() ends after the source was enumerated, every task was passed to the handler.
C4_SiblingsStillHandled ==
    (runState \in Ended /\ pc[Producer] = "done") =>
        \A i \in 1..nTasks : handled[i] >= 1

\* C5: no counter update is lost: whenever no thread is inside count(), every
\* counter (pending, done, errors, items) equals the sum of the deltas passed to
\* count(), so 100 tasks calling count(items=-1) give items = -100.
C5_NoLostUpdate ==
    inCount = {} => \A n \in CounterNames : counter[n] = requested[n]

C5_Witness ==
    /\ runState = "returned"
    /\ nCons = MaxConsumers
    /\ nTasks = MaxTasks
    /\ inCount = {}
    /\ counter["items"] = -MaxTasks
    /\ requested["items"] = -MaxTasks

\* ------------------------------------------------------------ MirrorWorker
\* MirrorWorker.get_tasks: source.iterate_keys(glob=self.glob, prefix=self.prefix);
\* exclude_prefix is not passed on
MirrorGetTasks == IterateKeys(source, prefix, NoPrefix)

\* the key that task i stands for
TaskKey(i) == MirrorGetTasks[i]

\* handle_task: if not self.overwrite and self.target.exists(task)
MirrorExists(c) ==
    /\ pc[c] = "m_exists"
    /\ pc' = [pc EXCEPT ![c] =
                IF ~overwrite /\ StoreExists(target, TaskKey(cur[c]))
                   THEN "m_skip_rd" ELSE "m_open"]
    /\ UNCHANGED svars
    /\ UNCHANGED <<cfg, runState, joinIdx, status, queue, counter, inCount, cur, tmp,
                   prodIdx, handled, requested, mvars, qvars>>

\* handle_task: source.open(task, "rb") and target.open(task, "wb"); opening a
\* file for writing creates or truncates it
MirrorOpen(c) ==
    /\ pc[c] = "m_open"
    /\ target' = StoreWrite(target, TaskKey(cur[c]), "")
    /\ pc' = [pc EXCEPT ![c] = "m_write"]
    /\ UNCHANGED svars
    /\ UNCHANGED <<cfg, runState, joinIdx, status, queue, counter, inCount, cur, tmp,
                   prodIdx, handled, requested, qvars, mcfg, skipped, mirrored, failed>>

\* handle_task: o.write(i.read()) and both handles are closed
MirrorWrite(c) ==
    /\ pc[c] = "m_write"
    /\ target' = StoreWrite(target, TaskKey(cur[c]), source[TaskKey(cur[c])])
    /\ pc' = [pc EXCEPT ![c] = "m_mir_rd"]
    /\ UNCHANGED svars
    /\ UNCHANGED <<cfg, runState, joinIdx, status, queue, counter, inCount, cur, tmp,
                   prodIdx, handled, requested, qvars, mcfg, skipped, mirrored, failed>>

\* handle_task: i.read() raises (the source became unreadable after it was
\* opened). The target was opened for writing before the read: the with
\* statement closes it with nothing written, which leaves the created (or
\* truncated) file of a file target, and the empty buffer that
\* VirtualIOMixin._open writes in its finally clause for the other backends
MirrorReadRaise(c) ==
    /\ pc[c] = "m_write"
    /\ failed' = failed \cup {TaskKey(cur[c])}
    /\ cur' = [cur EXCEPT ![c] = 0]
    /\ pc' = [pc EXCEPT ![c] = "err_pending"]
    /\ UNCHANGED svars
    /\ UNCHANGED <<cfg, runState, joinIdx, status, queue, counter, inCount, tmp,
                   prodIdx, handled, requested, qvars, mcfg, target, skipped, mirrored>>

\* handle_task: self.skipped += 1 / self.mirrored += 1, outside any lock: the
\* attribute is read ...
MirrorIncrRead(c) ==
    /\ pc[c] \in {"m_skip_rd", "m_mir_rd"}
    /\ tmp' = [tmp EXCEPT ![c] = IF pc[c] = "m_skip_rd" THEN skipped ELSE mirrored]
    /\ pc' = [pc EXCEPT ![c] = IF pc[c] = "m_skip_rd" THEN "m_skip_wr" ELSE "m_mir_wr"]
    /\ UNCHANGED svars
    /\ UNCHANGED <<cfg, runState, joinIdx, status, queue, counter, inCount, cur,
                   prodIdx, handled, requested, mvars, qvars>>

\* ... and the sum is stored; handle_task returns
MirrorIncrWrite(c) ==
    /\ pc[c] \in {"m_skip_wr", "m_mir_wr"}
    /\ IF pc[c] = "m_skip_wr"
          THEN skipped' = tmp[c] + 1 /\ UNCHANGED mirrored
          ELSE mirrored' = tmp[c] + 1 /\ UNCHANGED skipped
    /\ pc' = [pc EXCEPT ![c] = "ok_pending"]
    /\ cur' = [cur EXCEPT ![c] = 0]
    /\ tmp' = [tmp EXCEPT ![c] = 0]
    /\ UNCHANGED svars
    /\ UNCHANGED <<cfg, runState, joinIdx, status, queue, counter, inCount,
                   prodIdx, handled, requested, qvars, mcfg, target, failed>>

\* mirror(): a MirrorWorker over a source holding every key of the model and a
\* target holding any of them, with the default error handler
InitMirror ==
    /\ mode = "mirror"
    /\ handlerKind = "default"
    /\ nCons \in 1..MaxConsumers
    /\ noneAt = 0
    /\ source = [k \in Keys |-> Content(k)]
    /\ target0 \in {[k \in T |-> "old"] : T \in SUBSET Keys} \cup {source}
    /\ target = target0
    /\ overwrite \in BOOLEAN
    /\ prefix \in {NoPrefix, PrefixA}
    /\ excludePrefix \in {NoPrefix, PrefixA}
    /\ skipped = 0
    /\ mirrored = 0
    /\ failed = {}
    /\ nTasks = Len(MirrorGetTasks)
    /\ InitWorkerState
    /\ NoStore

NextMirror ==
    \/ RunStep
    \/ ProduceNext
    \/ ProducePut
    \/ ProduceSentinel
    \/ \E t \in Threads : CountEnter(t)
    \/ \E t \in Threads : CountExit(t)
    \/ \E c \in Consumers : ConsumeGet(c)
    \/ \E c \in Consumers : ConsumeReput(c)
    \/ \E c \in Consumers : ConsumeCheck(c)
    \/ \E c \in Consumers : MirrorExists(c)
    \/ \E c \in Consumers : MirrorOpen(c)
    \/ \E c \in Consumers : MirrorWrite(c)
    \/ \E c \in Consumers : MirrorReadRaise(c)
    \/ \E c \in Consumers : ConsumeException(c)
    \/ \E c \in Consumers : MirrorIncrRead(c)
    \/ \E c \in Consumers : MirrorIncrWrite(c)

SpecMirror == InitMirror /\ [][NextMirror]_vars

\* ------------------------------------------------------ claims: the mirror
\* C6: mirroring a source of N keys into an empty target, with any number of
\* consumer threads, ends with mirrored = N, skipped = 0, the target's keys equal
\* to the source's and every target value equal to the source value.
C6_MirrorComplete ==
    (runState = "returned" /\ target0 = EmptyStore /\ prefix = NoPrefix
        /\ excludePrefix = NoPrefix) =>
        /\ mirrored = Cardinality(DOMAIN source)
        /\ skipped = 0
        /\ DOMAIN target = DOMAIN source
        /\ \A k \in DOMAIN source : target[k] = source[k]

\* C7: with overwrite = False a key that exists in the target is never written,
\* and repeating a completed mirror of N keys gives mirrored = 0, skipped = N and
\* an unchanged target.
C7_NoOverwriteSkips ==
    ~overwrite =>
        /\ \A k \in DOMAIN target0 : k \in DOMAIN target /\ target[k] = target0[k]
        /\ (runState = "returned" /\ target0 = source /\ prefix = NoPrefix
              /\ excludePrefix = NoPrefix) =>
              /\ mirrored = 0
              /\ skipped = Cardinality(DOMAIN source)
              /\ target = target0

\* C8: with exclude_prefix = E no source key starting with E is created or changed
\* in the target.
C8_ExcludePrefixNotCopied ==
    excludePrefix # NoPrefix =>
        \A k \in Keys : StartsWith(k, excludePrefix) =>
            /\ StoreExists(target, k) <=> StoreExists(target0, k)
            /\ StoreExists(target, k) => target[k] = target0[k]

\* -------------------------------------------------------- the store contract
Backends == {"fs", "memory", "redis", "sql", "zip"}

\* the keys and values the store calls of the model use
StoreKeys == {KeyAX, KeyB}

PutValues == {PyBytes("foo"), PyStr("foo"), PyInt("1"), PyNone}

\* the raise_on_nonexist argument of a call: not given, True or False
RaiseArgs == {"unset", "true", "false"}

\* the record of a call: operation, key, raise_on_nonexist argument, value and ttl
\* given, time of the call, outcome, items yielded, and the contents of the store
\* before the call
Call(op, k, arg, v, ttl, out, items) ==
    [op |-> op, key |-> k, arg |-> arg, val |-> v, ttl |-> ttl, at |-> now, out |-> out,
     items |-> items, before |-> sData]

\* the backends' _read(key, raise_on_nonexist). memory, redis and sql look the key
\* up and raise DoesNotExist or return None; fs reads through smart_read, whose
\* DoesNotExist is caught by `except FileNotFoundError`; zip catches the KeyError
\* of the archive
BackendRead(backend, data, k, raise) ==
    IF StoreExists(data, k)
       THEN Return(data[k])
       ELSE IF backend = "fs" /\ ~IsFileNotFound("DoesNotExist")
               THEN Raise("DoesNotExist")
               ELSE IF raise THEN Raise("DoesNotExist") ELSE Return(PyNone)

\* the backends' _open(key, mode="rb"): fs opens the file; redis and sql
\* (VirtualIOMixin) buffer self._read(key), which raises for a missing key;
\* memory has no _open and gets AbstractBackend's; zip opens the member of the
\* archive, a KeyError when there is none
BackendOpen(backend, data, k) ==
    IF backend = "memory"
       THEN Raise("NotImplementedError")
       ELSE IF StoreExists(data, k) THEN Return(data[k])
       ELSE IF backend = "zip" THEN Raise("KeyError")
       ELSE Raise("DoesNotExist")

\* the backends' _write(key, value): ZipStore._writer refuses an existing key
BackendWrite(backend, data, k) ==
    IF backend = "zip" /\ StoreExists(data, k) THEN Raise("ReadOnlyError")
    ELSE Return(PyNone)

\* ------------------------------------------------------------- key expiry
\* what a backend keeps per key for the ttl: the sql row's timestamp and ttl
\* columns, the deadline in MemoryStore._ttl or of the redis key (0: none)
NoEntry == [ts |-> 0, ttl |-> 0, exp |-> 0]

MetaOf(meta, k) == IF k \in DOMAIN meta THEN meta[k] ELSE NoEntry

\* the backends' _write(key, value, ttl=ttl) at time t: memory sets a deadline when
\* a ttl is given, redis sets or clears it, sql inserts a row with the current
\* timestamp or, on conflict, updates value and ttl; fs and zip keep none
WriteMeta(backend, data, meta, k, ttl, t) ==
    CASE backend = "memory" ->
            IF ttl > 0 THEN StoreWrite(meta, k, [NoEntry EXCEPT !.exp = t + ttl]) ELSE meta
      [] backend = "redis" ->
            StoreWrite(meta, k, [NoEntry EXCEPT !.exp = IF ttl > 0 THEN t + ttl ELSE 0])
      [] backend = "sql" ->
            StoreWrite(meta, k, [NoEntry EXCEPT !.ttl = ttl,
                                                !.ts = IF StoreExists(data, k)
                                                          THEN MetaOf(meta, k).ts ELSE t])
      [] OTHER -> meta

\* MemoryStore._check_ttl and the test in SqlStore._read: the key has expired
ReadExpires(backend, data, meta, k, t) ==
    CASE backend = "memory" -> MetaOf(meta, k).exp > 0 /\ t > MetaOf(meta, k).exp
      [] backend = "sql" ->
            /\ StoreExists(data, k)
            /\ MetaOf(meta, k).ttl > 0
            /\ MetaOf(meta, k).ts + MetaOf(meta, k).ttl < t
      [] OTHER -> FALSE

\* _exists: only MemoryStore checks the ttl
ExistsExpires(backend, data, meta, k, t) ==
    backend = "memory" /\ ReadExpires(backend, data, meta, k, t)

\* the backends' _delete(key): the entry goes (and with it the sql row or the
\* redis key; MemoryStore._ttl keeps its entry)
DeleteMeta(backend, meta, k) ==
    IF backend \in {"sql", "redis"} THEN StoreRemove(meta, k) ELSE meta

\* the contents and the ttl data after the expiry test of a read of k
DataAfterRead(k) ==
    IF ReadExpires(sBackend, sData, sMeta, k, now) THEN StoreRemove(sData, k) ELSE sData

MetaAfterRead(k) ==
    IF ReadExpires(sBackend, sData, sMeta, k, now)
       THEN DeleteMeta(sBackend, sMeta, k) ELSE sMeta

\* the same for exists(k)
DataAfterExists(k) ==
    IF ExistsExpires(sBackend, sData, sMeta, k, now) THEN StoreRemove(sData, k) ELSE sData

\* the redis server drops the keys whose deadline has come
RedisExpired(meta, t) == {k \in DOMAIN meta : meta[k].exp > 0 /\ t >= meta[k].exp}

\* BaseStore.get: the argument, or else the store's raise_on_nonexist
GetRaises(arg) == IF arg = "unset" THEN sRaise ELSE arg = "true"

\* BaseStore.stream: the argument alone decides
StreamRaises(arg) == arg = "true"

\* BaseStore.get on the contents data
GetOutcomeIn(data, k, arg) ==
    LET read == BackendRead(sBackend, data, k, GetRaises(arg))
        out == IF read.kind = "raise" THEN read ELSE FromStore(read.val, sMode)
    IN  IF out.kind = "raise" /\ IsFileNotFound(out.exc)
           THEN IF GetRaises(arg) THEN Raise("DoesNotExist") ELSE Return(PyNone)
           ELSE out

GetOutcome(k, arg) == GetOutcomeIn(DataAfterRead(k), k, arg)

\* AbstractBackend._stream: the lines of the value (the values of the model hold
\* no newline: one line, or none for empty bytes)
StreamLines(x) == IF x.v = "" /\ x.p = "" THEN <<>> ELSE <<x>>

\* BaseStore.stream, iterated to its end: the outcome and the items yielded
StreamOutcome(k, arg) ==
    LET open == BackendOpen(sBackend, DataAfterRead(k), k)
        lines == IF open.kind = "raise" THEN <<>> ELSE StreamLines(open.val)
        outs == [i \in 1..Len(lines) |-> FromStore(lines[i], sMode)]
        bad == {i \in 1..Len(lines) : outs[i].kind = "raise"}
        out == IF open.kind = "raise" THEN open
               ELSE IF bad # {} THEN outs[CHOOSE i \in bad : \A j \in bad : i <= j]
               ELSE Return(PyNone)
        n == IF bad = {} THEN Len(lines) ELSE (CHOOSE i \in bad : \A j \in bad : i <= j) - 1
    IN  IF out.kind = "raise" /\ IsFileNotFound(out.exc)
           THEN [out |-> IF StreamRaises(arg) THEN Raise("DoesNotExist") ELSE Return(PyNone),
                 items |-> <<>>]
           ELSE [out |-> out, items |-> [i \in 1..n |-> outs[i].val]]

\* BaseStore.put: check_readonly, the store_none_values test, then to_store and
\* the backend's _write (the store's default_ttl is 0, so the ttl is the argument)
PutOutcome(k, v) ==
    IF sReadonly THEN Raise("ReadOnlyError")
    ELSE IF ~sStoreNone THEN Return(PyNone)
    ELSE IF ToStore(v, sMode).kind = "raise" THEN ToStore(v, sMode)
    ELSE BackendWrite(sBackend, sData, k)

PutWrites(k, v) ==
    /\ ~sReadonly
    /\ sStoreNone
    /\ ToStore(v, sMode).kind = "return"
    /\ BackendWrite(sBackend, sData, k).kind = "return"

\* the ttl argument of put when none is passed
NoTtl == -1

\* BaseStore.put: `ttl = ttl or self.default_ttl or None` (0: None)
EffectiveTtl(ttl) ==
    IF ttl > 0 THEN ttl ELSE IF sDefaultTtl > 0 THEN sDefaultTtl ELSE 0

StorePut(k, v, ttl) ==
    LET a == BackendKey(sBackend, k)
    IN  /\ sRes' = Call("put", k, "unset", v, ttl, PutOutcome(a, v), <<>>)
        /\ sLastWrite' = sRes'
        /\ IF PutWrites(a, v)
              THEN /\ sData' = StoreWrite(sData, a, ToStore(v, sMode).val)
                   /\ sMeta' = WriteMeta(sBackend, sData, sMeta, a, EffectiveTtl(ttl), now)
                   /\ sWritten' = sWritten \cup {a}
              ELSE UNCHANGED <<sData, sMeta, sWritten>>
        /\ UNCHANGED <<scfg, now, wvars, mvars, qvars, dvars>>

StoreGet(k, arg) ==
    LET a == BackendKey(sBackend, k)
    IN  /\ sRes' = Call("get", k, arg, PyNone, 0, GetOutcome(a, arg), <<>>)
        /\ sData' = DataAfterRead(a)
        /\ sMeta' = MetaAfterRead(a)
        /\ UNCHANGED <<scfg, sWritten, sLastWrite, now, wvars, mvars, qvars, dvars>>

StoreExistsCall(k) ==
    LET a == BackendKey(sBackend, k)
    IN  /\ sRes' = Call("exists", k, "unset", PyNone, 0,
                        Return(PyBool(StoreExists(DataAfterExists(a), a))), <<>>)
        /\ sData' = DataAfterExists(a)
        /\ UNCHANGED <<scfg, sWritten, sLastWrite, sMeta, now, wvars, mvars, qvars, dvars>>

StoreStream(k, arg) ==
    /\ sRes' = Call("stream", k, arg, PyNone, 0, StreamOutcome(k, arg).out,
                    StreamOutcome(k, arg).items)
    /\ IF sBackend = "memory"
          THEN UNCHANGED <<sData, sMeta>>
          ELSE sData' = DataAfterRead(k) /\ sMeta' = MetaAfterRead(k)
    /\ UNCHANGED <<scfg, sWritten, sLastWrite, now, wvars, mvars, qvars, dvars>>

\* the backends' _delete(key): the archive is append-only, the file system has
\* no file to remove for a missing key, the others ignore a missing key
BackendDelete(backend, data, k) ==
    CASE backend = "zip" -> Raise("ReadOnlyError")
      [] backend = "fs" /\ ~StoreExists(data, k) -> Raise("FileNotFoundError")
      [] OTHER -> Return(PyNone)

\* BaseStore.delete: check_readonly, then _delete, whose exception is dropped
\* with ignore_errors
DeleteOutcome(k, ignore) ==
    IF sReadonly THEN Raise("ReadOnlyError")
    ELSE IF BackendDelete(sBackend, sData, k).kind = "raise" /\ ~ignore
            THEN BackendDelete(sBackend, sData, k)
            ELSE Return(PyNone)

DeleteRemoves(k) == ~sReadonly /\ BackendDelete(sBackend, sData, k).kind = "return"

StoreDelete(k, ignore) ==
    /\ sRes' = Call("delete", k, IF ignore THEN "ignore" ELSE "unset", PyNone, 0,
                    DeleteOutcome(k, ignore), <<>>)
    /\ sLastWrite' = sRes'
    /\ IF DeleteRemoves(k)
          THEN /\ sData' = StoreRemove(sData, k)
               /\ sMeta' = DeleteMeta(sBackend, sMeta, k)
          ELSE UNCHANGED <<sData, sMeta>>
    /\ UNCHANGED <<scfg, sWritten, now, wvars, mvars, qvars, dvars>>

\* BaseStore.pop: check_readonly, then get and _delete of the same key
PopOutcome(k, arg) ==
    IF sReadonly THEN Raise("ReadOnlyError")
    ELSE IF GetOutcome(k, arg).kind = "raise" THEN GetOutcome(k, arg)
    ELSE IF BackendDelete(sBackend, DataAfterRead(k), k).kind = "raise"
            THEN BackendDelete(sBackend, DataAfterRead(k), k)
            ELSE GetOutcome(k, arg)

StorePop(k, arg) ==
    /\ sRes' = Call("pop", k, arg, PyNone, 0, PopOutcome(k, arg), <<>>)
    /\ sLastWrite' = sRes'
    /\ IF sReadonly
          THEN UNCHANGED <<sData, sMeta>>
          ELSE IF /\ GetOutcome(k, arg).kind = "return"
                  /\ BackendDelete(sBackend, DataAfterRead(k), k).kind = "return"
                  THEN /\ sData' = StoreRemove(sData, k)
                       /\ sMeta' = DeleteMeta(sBackend, MetaAfterRead(k), k)
                  ELSE /\ sData' = DataAfterRead(k)
                       /\ sMeta' = MetaAfterRead(k)
    /\ UNCHANGED <<scfg, sWritten, now, wvars, mvars, qvars, dvars>>

\* BaseStore.touch: check_readonly, then put(key, datetime.now()), and the
\* timestamp is returned. ZipStore.touch: put, unless the key exists
TouchPuts(k) ==
    IF sBackend = "zip" THEN ~StoreExists(sData, k) ELSE ~sReadonly

TouchOutcome(k) ==
    IF sBackend = "zip"
       THEN IF TouchPuts(k) THEN PutOutcome(k, PyDatetime) ELSE Return(PyNone)
       ELSE IF sReadonly THEN Raise("ReadOnlyError")
       ELSE IF PutOutcome(k, PyDatetime).kind = "raise" THEN PutOutcome(k, PyDatetime)
       ELSE Return(PyDatetime)

StoreTouch(k) ==
    /\ sRes' = Call("touch", k, "unset", PyDatetime, 0, TouchOutcome(k), <<>>)
    /\ sLastWrite' = sRes'
    /\ IF TouchPuts(k) /\ PutWrites(k, PyDatetime)
          THEN /\ sData' = StoreWrite(sData, k, ToStore(PyDatetime, sMode).val)
               /\ sMeta' = WriteMeta(sBackend, sData, sMeta, k, EffectiveTtl(NoTtl), now)
               /\ sWritten' = sWritten \cup {k}
          ELSE UNCHANGED <<sData, sMeta, sWritten>>
    /\ UNCHANGED <<scfg, now, wvars, mvars, qvars, dvars>>

\* the modes of open: read, write, append, exclusive creation, update
OpenModes == {"rb", "wb", "ab", "xb", "r+b"}

\* the bytes the caller writes to a handle it may write to
Written == PyBytes("new")

MaxContent == 6

\* bytes x followed by the bytes written
Appended(x) == [x EXCEPT !.v = x.v \o Written.v]

\* the backend's _open(key, mode=m), the caller's write and the close: the
\* outcome (the bytes read, for the mode rb) and the contents afterwards.
\* fs opens the file in the mode given; VirtualIOMixin (redis, sql) writes the
\* buffer back only when "w" is in the mode and reads the key otherwise;
\* ZipStore reads when "r" is in the mode and else writes a member that must
\* be new (the archive opens members for "r" and "w" alone); memory has none
OpenEffect(backend, data, k, m) ==
    LET has == StoreExists(data, k)
        Same(out) == [out |-> out, data |-> data]
        Put(v) == [out |-> Return(PyNone), data |-> StoreWrite(data, k, v)]
    IN  CASE backend = "memory" -> Same(Raise("NotImplementedError"))
          [] backend = "fs" ->
                CASE m = "rb" -> Same(IF has THEN Return(data[k]) ELSE Raise("DoesNotExist"))
                  [] m = "wb" -> Put(Written)
                  [] m = "ab" -> Put(IF has THEN Appended(data[k]) ELSE Written)
                  [] m = "xb" -> IF has THEN Same(Raise("FileExistsError")) ELSE Put(Written)
                  [] OTHER -> IF has THEN Put(Written) ELSE Same(Raise("DoesNotExist"))
          [] backend = "zip" ->
                CASE m = "rb" -> Same(IF has THEN Return(data[k]) ELSE Raise("KeyError"))
                  [] m = "r+b" -> Same(Raise("ValueError"))
                  [] m = "wb" -> IF has THEN Same(Raise("ReadOnlyError")) ELSE Put(Written)
                  [] OTHER -> Same(IF has THEN Raise("ReadOnlyError") ELSE Raise("ValueError"))
          [] OTHER ->
                IF m = "wb" THEN Put(Written)
                ELSE Same(IF has THEN Return(IF m = "rb" THEN data[k] ELSE PyNone)
                                 ELSE Raise("DoesNotExist"))

\* BaseStore.open refuses the modes with "w" or "a" on a read-only store
OpenRefused(m) == sReadonly /\ m \in {"wb", "ab"}

\* the data the backend's _open works on: redis and sql read the key first
DataAtOpen(k, m) ==
    IF sBackend \in {"redis", "sql"} /\ m # "wb" THEN DataAfterRead(k) ELSE sData

StoreOpen(k, m) ==
    /\ StoreExists(sData, k) => Len(sData[k].v) + Len(Written.v) <= MaxContent
    /\ sRes' = Call("open", k, m, IF m = "rb" THEN PyNone ELSE Written, 0,
                    IF OpenRefused(m) THEN Raise("ReadOnlyError")
                    ELSE OpenEffect(sBackend, DataAtOpen(k, m), k, m).out, <<>>)
    /\ sLastWrite' = IF m = "rb" THEN sLastWrite ELSE sRes'
    /\ IF OpenRefused(m)
          THEN UNCHANGED <<sData, sMeta, sWritten>>
          ELSE /\ sData' = OpenEffect(sBackend, DataAtOpen(k, m), k, m).data
               /\ sMeta' = IF StoreExists(sData', k) /\ (~StoreExists(sData, k) \/ sData'[k] # sData[k])
                              THEN WriteMeta(sBackend, sData, sMeta, k, 0, now)
                              ELSE IF sBackend \in {"redis", "sql"} /\ m # "wb"
                                      THEN MetaAfterRead(k) ELSE sMeta
               /\ sWritten' = IF StoreExists(sData', k) /\ ~StoreExists(sData, k)
                                 THEN sWritten \cup {k} ELSE sWritten
    /\ UNCHANGED <<scfg, now, wvars, mvars, qvars, dvars>>

\* the contents a read-only store finds: nothing, or bytes written before
Preloaded == [k \in {KeyB} |-> PyBytes("1")]

\* the worker and the mirror take no part in the store calls
IdleWorker ==
    /\ mode = "plain"
    /\ handlerKind = "default"
    /\ nCons = 1
    /\ nTasks = 0
    /\ noneAt = 0
    /\ InitWorkerState
    /\ NoMirror

InitStore ==
    /\ sBackend \in Backends
    /\ sMode \in Modes
    /\ sRaise \in BOOLEAN
    /\ sReadonly \in BOOLEAN
    /\ sStoreNone \in BOOLEAN
    /\ sDefaultTtl = 0
    /\ sData0 = EmptyStore
    /\ sData = EmptyStore
    /\ sWritten = {}
    /\ sRes = NoCall
    /\ sLastWrite = NoCall
    /\ sMeta = EmptyStore
    /\ now = 1
    /\ IdleWorker
    /\ IdleDrivers
    /\ NoDecorated

NextStore ==
    \/ \E k \in StoreKeys, v \in PutValues : StorePut(k, v, 0)
    \/ \E k \in StoreKeys, arg \in RaiseArgs : StoreGet(k, arg)
    \/ \E k \in StoreKeys : StoreExistsCall(k)
    \/ \E k \in StoreKeys, arg \in RaiseArgs : StoreStream(k, arg)

SpecStore == InitStore /\ [][NextStore]_vars

\* ------------------------------------------------- the mutating operations
MutateValues == {PyStr("foo"), PyInt("1")}

InitMutate ==
    /\ sBackend \in Backends
    /\ sMode \in Modes
    /\ sRaise \in BOOLEAN
    /\ sReadonly \in BOOLEAN
    /\ sStoreNone = TRUE
    /\ sDefaultTtl = 0
    /\ sData0 \in IF sReadonly THEN {EmptyStore, Preloaded} ELSE {EmptyStore}
    /\ sData = sData0
    /\ sWritten = DOMAIN sData0
    /\ sRes = NoCall
    /\ sLastWrite = NoCall
    /\ now = 1
    /\ sMeta = [k \in DOMAIN sData0 |-> [NoEntry EXCEPT !.ts = now]]
    /\ IdleWorker
    /\ IdleDrivers
    /\ NoDecorated

NextMutate ==
    \/ \E k \in StoreKeys, v \in MutateValues : StorePut(k, v, 0)
    \/ \E k \in StoreKeys, ignore \in BOOLEAN : StoreDelete(k, ignore)
    \/ \E k \in StoreKeys, arg \in RaiseArgs : StorePop(k, arg)
    \/ \E k \in StoreKeys : StoreTouch(k)
    \/ \E k \in StoreKeys, m \in OpenModes : StoreOpen(k, m)

SpecMutate == InitMutate /\ [][NextMutate]_vars

\* ------------------------------------------------- the serialization alone
PyFloat == [t |-> "float", v |-> "1.1", p |-> ""]

PyDict == [t |-> "dict", v |-> "{\"a\":1}", p |-> ""]

SerValues ==
    {PyBytes("foo"), PyBytes("1"), PyBytes(""), PyStr("foo"), PyStr("1"), PyStr("true"),
     PyStr("null"), PyStr(""), PyInt("1"), PyFloat, PyBool(TRUE), PyBool(FALSE), PyNone,
     PyDict}

\* to_store(v, mode)
ToStoreCall(v) ==
    /\ sRes' = Call("to_store", <<>>, "unset", v, 0, ToStore(v, sMode), <<>>)
    /\ UNCHANGED <<scfg, sData, sWritten, sLastWrite, sMeta, now, wvars, mvars, qvars, dvars>>

\* from_store(v, mode)
FromStoreCall(v) ==
    /\ sRes' = Call("from_store", <<>>, "unset", v, 0, FromStore(v, sMode), <<>>)
    /\ UNCHANGED <<scfg, sData, sWritten, sLastWrite, sMeta, now, wvars, mvars, qvars, dvars>>

\* from_store(to_store(v, mode), mode)
RoundTrip(v) ==
    /\ sRes' = Call("roundtrip", <<>>, "unset", v, 0,
                    IF ToStore(v, sMode).kind = "raise" THEN ToStore(v, sMode)
                    ELSE FromStore(ToStore(v, sMode).val, sMode), <<>>)
    /\ UNCHANGED <<scfg, sData, sWritten, sLastWrite, sMeta, now, wvars, mvars, qvars, dvars>>

\* the deserialization functions of the model: lambda b: b.decode(), and int
DeserFuncs == {"decode", "int"}

DeserializationFunc(f, x) ==
    CASE f = "decode" -> BytesDecode(x)
      [] f = "int" -> IF x.v = "1" THEN Return(PyInt("1")) ELSE Raise("ValueError")

\* the values a backend hands to from_store
StoredBytes == {v \in SerValues : v.t = "bytes"}

\* serialize.from_store with a deserialization_func and no model:
\* value = deserialization_func(value), then the decoding of the mode
FromStoreFunc(x, m, f) ==
    IF DeserializationFunc(f, x).kind = "raise"
       THEN DeserializationFunc(f, x)
       ELSE FromStore(DeserializationFunc(f, x).val, m)

\* from_store(v, mode, deserialization_func=f)
FromStoreFuncCall(v, f) ==
    /\ sRes' = Call("from_store_func", <<>>, f, v, 0, FromStoreFunc(v, sMode, f), <<>>)
    /\ UNCHANGED <<scfg, sData, sWritten, sLastWrite, sMeta, now, wvars, mvars, qvars, dvars>>

InitSerialize ==
    /\ sBackend = "memory"
    /\ sMode \in Modes
    /\ sRaise = TRUE
    /\ sReadonly = FALSE
    /\ sStoreNone = TRUE
    /\ sDefaultTtl = 0
    /\ sData0 = EmptyStore
    /\ sData = EmptyStore
    /\ sWritten = {}
    /\ sRes = NoCall
    /\ sLastWrite = NoCall
    /\ sMeta = EmptyStore
    /\ now = 1
    /\ IdleWorker
    /\ IdleDrivers
    /\ NoDecorated

NextSerialize ==
    \/ \E v \in SerValues : ToStoreCall(v)
    \/ \E v \in SerValues : FromStoreCall(v)
    \/ \E v \in SerValues : RoundTrip(v)
    \/ \E v \in StoredBytes, f \in DeserFuncs : FromStoreFuncCall(v, f)

SpecSerialize == InitSerialize /\ [][NextSerialize]_vars

\* ------------------------------------------------------------ anycache
MaxRuns == 2

\* the values a wrapped function returns
DecValues == {PyStr("foo"), PyInt("1"), PyBytes("foo"), PyNone}

\* _inner: `if key is not None: return store.get(key)`, on the decorator's copy of
\* the store, whose raise_on_nonexist is True
CacheReads(kf) == ~kf.none

CacheGet(kf) == GetOutcomeIn(DataAfterRead(kf.k), kf.k, "true")

\* _inner: `except DoesNotExist`: the wrapped function is called
CacheMisses(kf) == ~CacheReads(kf) \/ CacheGet(kf) = Raise("DoesNotExist")

\* _handle_result: `if key: store.put(key, res, ...)`
HandleResultPutsAlways(kf) == TRUE

HandleResultPuts(kf) == ~kf.none /\ kf.k # <<>>

\* the put of _handle_result, on the contents the read has left
CachePutOutcome(kf, v) ==
    IF sReadonly THEN Raise("ReadOnlyError")
    ELSE IF ~sStoreNone THEN Return(PyNone)
    ELSE IF ToStore(v, sMode).kind = "raise" THEN ToStore(v, sMode)
    ELSE BackendWrite(sBackend, DataAfterRead(kf.k), kf.k)

CachePutWrites(kf, v) ==
    /\ ~sReadonly
    /\ sStoreNone
    /\ ToStore(v, sMode).kind = "return"
    /\ BackendWrite(sBackend, DataAfterRead(kf.k), kf.k).kind = "return"

\* a call of the decorated function whose key_func yields kf and whose wrapped
\* function would return v. The empty key addresses the base directory of a file
\* system store, whose read the source leaves to the file system: not modelled.
CachedCall(kf, v) ==
    /\ fnRuns[kf] < MaxRuns
    /\ kf = EmptyKey => sBackend # "fs"
    /\ LET read == CacheReads(kf)
           miss == CacheMisses(kf)
           puts == miss /\ HandleResultPuts(kf)
           data == IF read THEN DataAfterRead(kf.k) ELSE sData
           meta == IF read THEN MetaAfterRead(kf.k) ELSE sMeta
           out == IF ~miss THEN CacheGet(kf)
                  ELSE IF puts /\ CachePutOutcome(kf, v).kind = "raise"
                          THEN CachePutOutcome(kf, v)
                          ELSE Return(v)
       IN  /\ sRes' = Call("cached", kf.k, IF kf.none THEN "nokey" ELSE "key", v, 0, out, <<>>)
           /\ fnRan' = IF miss THEN 1 ELSE 0
           /\ fnRuns' = [fnRuns EXCEPT ![kf] = @ + (IF miss THEN 1 ELSE 0)]
           /\ sLastWrite' = IF puts
                               THEN Call("put", kf.k, "unset", v, 0, CachePutOutcome(kf, v), <<>>)
                               ELSE sLastWrite
           /\ IF puts /\ CachePutWrites(kf, v)
                 THEN /\ sData' = StoreWrite(data, kf.k, ToStore(v, sMode).val)
                      /\ sMeta' = WriteMeta(sBackend, data, meta, kf.k, EffectiveTtl(NoTtl), now)
                      /\ sWritten' = sWritten \cup {kf.k}
                 ELSE /\ sData' = data
                      /\ sMeta' = meta
                      /\ UNCHANGED sWritten
    /\ UNCHANGED <<scfg, now, wvars, mvars, qvars>>

InitCache ==
    /\ sBackend \in Backends
    /\ sMode \in Modes
    /\ sRaise = TRUE
    /\ sReadonly \in BOOLEAN
    /\ sStoreNone \in BOOLEAN
    /\ sDefaultTtl = 0
    /\ sData0 \in IF sReadonly THEN {EmptyStore, Preloaded} ELSE {EmptyStore}
    /\ sData = sData0
    /\ sWritten = DOMAIN sData0
    /\ sRes = NoCall
    /\ sLastWrite = NoCall
    /\ now = 1
    /\ sMeta = [k \in DOMAIN sData0 |-> [NoEntry EXCEPT !.ts = now]]
    /\ IdleWorker
    /\ IdleDrivers
    /\ NoDecorated

NextCache ==
    \/ \E kf \in DecKeys, v \in DecValues : CachedCall(kf, v)
    \/ \E k \in StoreKeys : StoreGet(k, "unset")

SpecCache == InitCache /\ [][NextCache]_vars

\* ------------------------------------------------------------ keys as given
\* the key b as callers may write it: plain, with a leading or a trailing slash,
\* URL-escaped
\* a key that climbs out of the store
KeyUp == <<"..", "/", "x">>

RawKeys == {KeyB, <<"/", "b">>, <<"b", "/">>, <<"%", "6", "2">>, KeyUp}

\* the file system resolves the path of an entry segment by segment: `..` leaves
\* the directory it is in. Climbs: the path, d segments below the base directory,
\* leaves the base directory (seg: inside a segment)
RECURSIVE Climbs(_, _, _)
Climbs(s, d, seg) ==
    IF s = <<>> THEN FALSE
    ELSE IF Head(s) = "/" THEN Climbs(Tail(s), d, FALSE)
    ELSE IF Head(s) = ".." THEN d = 0 \/ Climbs(Tail(s), d - 1, TRUE)
    ELSE Climbs(Tail(s), IF seg THEN d ELSE d + 1, TRUE)

\* the entry a of the backend lies outside the base location of the store. The
\* keys of memory, redis, sql and zip are texts that nothing resolves.
Outside(backend, a) == backend = "fs" /\ Climbs(a, 0, FALSE)

\* store / p on a memory store: MemoryStore.__truediv__ raises NotImplementedError
TrueDivOutcome == Raise("NotImplementedError")

StoreTrueDiv(p) ==
    /\ sBackend = "memory"
    /\ sRes' = Call("truediv", p, "unset", PyNone, 0, TrueDivOutcome, <<>>)
    /\ UNCHANGED <<scfg, sData, sWritten, sLastWrite, sMeta, now, wvars, mvars, qvars, dvars>>


\* the normal form of a key: URL-unescaped, without leading and trailing slashes
Normal(k) == Unquote(Strip(k))

KeyValues == {PyInt("1"), PyStr("foo")}

InitKeys ==
    /\ sBackend \in Backends
    /\ sMode = "auto"
    /\ sRaise \in BOOLEAN
    /\ sReadonly = FALSE
    /\ sStoreNone = TRUE
    /\ sDefaultTtl = 0
    /\ sData0 = EmptyStore
    /\ sData = EmptyStore
    /\ sWritten = {}
    /\ sRes = NoCall
    /\ sLastWrite = NoCall
    /\ sMeta = EmptyStore
    /\ now = 1
    /\ IdleWorker
    /\ IdleDrivers
    /\ NoDecorated

NextKeys ==
    \/ \E k \in RawKeys, v \in KeyValues : StorePut(k, v, 0)
    \/ \E k \in RawKeys : StoreGet(k, "unset")
    \/ \E k \in RawKeys : StoreExistsCall(k)
    \/ \E p \in {PrefixA} : StoreTrueDiv(p)

SpecKeys == InitKeys /\ [][NextKeys]_vars

\* ------------------------------------------------------------ listing keys
KeyA == <<"a">>

\* the keys of the listing, in a fixed order
ListKeySeq == <<KeyA, KeyAX, KeyAB, KeyB>>

ListKeys == {ListKeySeq[i] : i \in 1..Len(ListKeySeq)}

ListBackends == {"fs", "memory", "redis", "sql"}

ListPrefixes == {NoPrefix, PrefixA}

\* the exclude_prefix argument: not given, or "b"
ExcludeArgs == {"unset", "b"}

ExcludePrefix(arg) == IF arg = "b" THEN KeyB ELSE NoPrefix

\* join_relpaths(prefix, glob or "*"): what precedes the wildcard
JoinRelpaths(p) == IF p = <<>> THEN <<>> ELSE p \o <<"/">>

\* a file system holds no file below a file: k is a file and a directory
FsClash(keys) == \E k1, k2 \in keys : k1 # k2 /\ StartsWith(k2, k1 \o <<"/">>)

\* the backends' _iterate_keys without glob, on the entries data.
\* memory: the stored keys that start with get_key(prefix), as texts; sql: key LIKE
\* 'prefix/%' AND key NOT LIKE 'exclude%'; redis: the scan of 'anystore/prefix/*',
\* minus the keys that start with exclude_prefix; fs: the walk below the directory
BackendIterateKeys(backend, data, pre, excl) ==
    CASE backend = "memory" ->
            {k \in DOMAIN data :
                StartsWith(GetKeyPrefix(backend) \o <<"/">> \o k, GetKey(backend, pre))}
      [] backend = "sql" ->
            {k \in DOMAIN data :
                /\ StartsWith(k, JoinRelpaths(GetKey(backend, pre)))
                /\ excl = NoPrefix \/ ~StartsWith(k, GetKey(backend, excl))}
      [] backend = "redis" ->
            {k \in DOMAIN data :
                /\ StartsWith(GetKeyPrefix(backend) \o <<"/">> \o k,
                              JoinRelpaths(GetKey(backend, pre)))
                /\ excl = NoPrefix \/ ~StartsWith(k, excl)}
      [] OTHER ->
            {k \in DOMAIN data :
                /\ pre = NoPrefix \/ StartsWith(k, pre \o <<"/">>)
                /\ excl = NoPrefix \/ ~StartsWith(k, excl)}

\* BaseStore.iterate_keys calls self._iterate_keys(prefix, exclude_prefix, glob);
\* MemoryStore._iterate_keys takes the prefix only
IterateKeysOutcome(backend, data, pre, excl) ==
    IF backend = "memory"
       THEN [out |-> Raise("TypeError"), keys |-> {}]
       ELSE [out |-> Return(PyNone), keys |-> BackendIterateKeys(backend, data, pre, excl)]

StoreIterateKeys(pre, arg) ==
    LET res == IterateKeysOutcome(sBackend, sData, pre, ExcludePrefix(arg))
        Yielded(k) == k \in res.keys
    IN  /\ sRes' = Call("iterate_keys", pre, arg, PyNone, 0, res.out,
                        SelectSeq(ListKeySeq, Yielded))
        /\ UNCHANGED <<scfg, sData, sWritten, sLastWrite, sMeta, now, wvars, mvars, qvars, dvars>>

InitList ==
    /\ sBackend \in ListBackends
    /\ sMode = "auto"
    /\ sRaise = TRUE
    /\ sReadonly = FALSE
    /\ sStoreNone = TRUE
    /\ sDefaultTtl = 0
    /\ sData0 = EmptyStore
    /\ sData = EmptyStore
    /\ sWritten = {}
    /\ sRes = NoCall
    /\ sLastWrite = NoCall
    /\ sMeta = EmptyStore
    /\ now = 1
    /\ IdleWorker
    /\ IdleDrivers
    /\ NoDecorated

NextList ==
    \/ \E k \in ListKeys :
          /\ sBackend = "fs" => ~FsClash(DOMAIN sData \cup {k})
          /\ StorePut(k, PyInt("1"), 0)
    \/ \E pre \in ListPrefixes, arg \in ExcludeArgs : StoreIterateKeys(pre, arg)

SpecList == InitList /\ [][NextList]_vars

\* ------------------------------------------------------------ time to live
MaxTime == 5

MaxTtl == 2

TtlBackends == {"memory", "sql", "redis"}

TtlKeys == {KeyB}

TtlValues == {PyInt("1"), PyStr("foo")}

\* time passes
Tick ==
    /\ now < MaxTime
    /\ now' = now + 1
    /\ IF sBackend = "redis"
          THEN /\ sData' = [k \in (DOMAIN sData) \ RedisExpired(sMeta, now') |-> sData[k]]
               /\ sMeta' = [k \in (DOMAIN sMeta) \ RedisExpired(sMeta, now') |-> sMeta[k]]
          ELSE UNCHANGED <<sData, sMeta>>
    /\ UNCHANGED <<scfg, sWritten, sRes, sLastWrite, wvars, mvars, qvars, dvars>>

\* the BaseStats a backend's _info returns
PyStats == [t |-> "stats", v |-> "", p |-> ""]

\* the backends' _info(key): memory checks the ttl and reads the value; sql selects
\* the row; redis reads the value; the file system stats the path
InfoOutcome(backend, data, k) ==
    IF StoreExists(data, k) THEN Return(PyStats)
    ELSE IF backend \in {"memory", "redis", "sql"} THEN Raise("DoesNotExist")
    ELSE Raise("FileNotFoundError")

\* BaseStore.info
StoreInfo(k) ==
    LET a == BackendKey(sBackend, k)
    IN  /\ sRes' = Call("info", k, "unset", PyNone, 0,
                        InfoOutcome(sBackend, DataAfterExists(a), a), <<>>)
        /\ sData' = DataAfterExists(a)
        /\ UNCHANGED <<scfg, sWritten, sLastWrite, sMeta, now, wvars, mvars, qvars, dvars>>

InitTtl ==
    /\ sBackend \in TtlBackends
    /\ sMode = "auto"
    /\ sRaise \in BOOLEAN
    /\ sReadonly = FALSE
    /\ sStoreNone = TRUE
    /\ sDefaultTtl = 0
    /\ sData0 = EmptyStore
    /\ sData = EmptyStore
    /\ sWritten = {}
    /\ sRes = NoCall
    /\ sLastWrite = NoCall
    /\ sMeta = EmptyStore
    /\ now = 1
    /\ IdleWorker
    /\ IdleDrivers
    /\ NoDecorated

NextTtl ==
    \/ \E k \in TtlKeys, v \in TtlValues, ttl \in 0..MaxTtl : StorePut(k, v, ttl)
    \/ \E k \in TtlKeys, arg \in RaiseArgs : StoreGet(k, arg)
    \/ \E k \in TtlKeys : StoreExistsCall(k)
    \/ \E k \in TtlKeys : StoreInfo(k)
    \/ StoreIterateKeys(NoPrefix, "unset")
    \/ Tick

SpecTtl == InitTtl /\ [][NextTtl]_vars

\* a store with a default_ttl
TtlArgs == {NoTtl} \cup (0..MaxTtl)

InitDefaultTtl ==
    /\ sBackend \in TtlBackends
    /\ sMode = "auto"
    /\ sRaise = TRUE
    /\ sReadonly = FALSE
    /\ sStoreNone = TRUE
    /\ sDefaultTtl \in 0..MaxTtl
    /\ sData0 = EmptyStore
    /\ sData = EmptyStore
    /\ sWritten = {}
    /\ sRes = NoCall
    /\ sLastWrite = NoCall
    /\ sMeta = EmptyStore
    /\ now = 1
    /\ IdleWorker
    /\ IdleDrivers
    /\ NoDecorated

NextDefaultTtl ==
    \/ \E k \in TtlKeys, ttl \in TtlArgs : StorePut(k, PyInt("1"), ttl)
    \/ \E k \in TtlKeys : StoreGet(k, "unset")
    \/ Tick

SpecDefaultTtl == InitDefaultTtl /\ [][NextDefaultTtl]_vars

\* ------------------------------------------ SqlStore and its connections
\* SqlStore._get_conn: the thread's connection, opened at its first use and
\* kept in threading.local
GetConn(conns, t) == [conns EXCEPT ![t].open = TRUE]

OpenedAfterGetConn(t) ==
    [sqlOpened EXCEPT ![t] = IF sqlConn[t].open THEN @ ELSE @ + 1]

\* the rows a thread's connection sees: the committed rows without the ones it
\* has deleted in its open transaction
Visible(t) == sqlRows \ sqlConn[t].deleted

\* a statement that changes the row of k waits while another connection holds
\* an uncommitted change of that row
RowFree(t, k) == \A u \in SqlThreads \ {t} : k \notin sqlConn[u].deleted

\* the record of a driver operation
SqlCall(op, t, k, conn, found, keys) ==
    [op |-> op, thread |-> t, key |-> k, conn |-> conn, found |-> found, keys |-> keys]

\* SqlStore._write: insert, or update when the insert fails, and conn.commit(),
\* which commits the connection's earlier deletions as well
SqlWrite(t, k) ==
    /\ sqlConn[t].open \/ sqlOpened[t] < MaxConnections
    /\ RowFree(t, k)
    /\ sqlRows' = Visible(t) \cup {k}
    /\ sqlConn' = [GetConn(sqlConn, t) EXCEPT ![t].deleted = {}]
    /\ sqlOpened' = OpenedAfterGetConn(t)
    /\ sqlRes' = SqlCall("put", t, k, "cached", TRUE, {})
    /\ UNCHANGED <<wvars, mvars, svars, zvars, rvars>>

\* SqlStore._read: select on the thread's connection (rows without a ttl)
SqlRead(t, k) ==
    /\ sqlConn[t].open \/ sqlOpened[t] < MaxConnections
    /\ sqlConn' = GetConn(sqlConn, t)
    /\ sqlOpened' = OpenedAfterGetConn(t)
    /\ sqlRes' = SqlCall("get", t, k, "cached", k \in Visible(t), {})
    /\ UNCHANGED <<wvars, mvars, svars, zvars, rvars, sqlRows>>

\* SqlStore._exists
SqlExists(t, k) ==
    /\ sqlConn[t].open \/ sqlOpened[t] < MaxConnections
    /\ sqlConn' = GetConn(sqlConn, t)
    /\ sqlOpened' = OpenedAfterGetConn(t)
    /\ sqlRes' = SqlCall("exists", t, k, "cached", k \in Visible(t), {})
    /\ UNCHANGED <<wvars, mvars, svars, zvars, rvars, sqlRows>>

\* SqlStore._delete: conn.execute(delete ...) on the thread's connection, and
\* nothing else: the statement stays in the connection's open transaction
SqlDelete(t, k) ==
    /\ sqlConn[t].open \/ sqlOpened[t] < MaxConnections
    /\ RowFree(t, k)
    /\ sqlConn' = [GetConn(sqlConn, t) EXCEPT ![t].deleted = @ \cup ({k} \cap sqlRows)]
    /\ sqlOpened' = OpenedAfterGetConn(t)
    /\ sqlRes' = SqlCall("delete", t, k, "cached", FALSE, {})
    /\ UNCHANGED <<wvars, mvars, svars, zvars, rvars, sqlRows>>

\* SqlStore._iterate_keys, iterated to its end: `with self._engine.connect() as
\* conn` opens a connection of its own, which sees the committed rows
SqlIterateKeys(t) ==
    /\ sqlOpened[t] < MaxConnections
    /\ sqlOpened' = [sqlOpened EXCEPT ![t] = @ + 1]
    /\ sqlRes' = SqlCall("iterate_keys", t, <<>>, "new", FALSE, sqlRows)
    /\ UNCHANGED <<wvars, mvars, svars, zvars, rvars, sqlRows, sqlConn>>

InitSql ==
    /\ sBackend = "sql"
    /\ sMode = "auto"
    /\ sRaise = TRUE
    /\ sReadonly = FALSE
    /\ sStoreNone = TRUE
    /\ sDefaultTtl = 0
    /\ sData0 = EmptyStore
    /\ sData = EmptyStore
    /\ sWritten = {}
    /\ sRes = NoCall
    /\ sLastWrite = NoCall
    /\ sMeta = EmptyStore
    /\ now = 1
    /\ IdleWorker
    /\ IdleDrivers
    /\ NoDecorated

NextSql ==
    \/ \E t \in SqlThreads, k \in SqlKeys : SqlWrite(t, k)
    \/ \E t \in SqlThreads, k \in SqlKeys : SqlRead(t, k)
    \/ \E t \in SqlThreads, k \in SqlKeys : SqlExists(t, k)
    \/ \E t \in SqlThreads, k \in SqlKeys : SqlDelete(t, k)
    \/ \E t \in SqlThreads : SqlIterateKeys(t)

SpecSql == InitSql /\ [][NextSql]_vars

\* ------------------------------------------------ ZipStore and its writers
\* ZipStore._exists: the archive, opened for reading, has a member for the key
ZipExists(archive, k) == \E i \in 1..Len(archive) : archive[i].key = k

\* ZipStore._writer: `if self._exists(key): raise ReadOnlyError`; nothing is
\* locked between this test and the write
ZipWriterCheck(t, k) ==
    /\ zThread[t].pc = "idle"
    /\ zThread' = [zThread EXCEPT ![t] =
                      IF ZipExists(zArchive, k) THEN ZipIdle
                      ELSE [pc |-> "open", key |-> k, snap |-> <<>>]]
    /\ UNCHANGED <<wvars, mvars, svars, sqlvars, rvars, zArchive, zPutOk>>

\* _get_handler("a"): a ZipFileSystem of its own is opened for appending; it
\* reads the directory of the archive as it is now
ZipWriterOpen(t) ==
    /\ zThread[t].pc = "open"
    /\ zThread' = [zThread EXCEPT ![t].pc = "write", ![t].snap = zArchive]
    /\ UNCHANGED <<wvars, mvars, svars, sqlvars, rvars, zArchive, zPutOk>>

\* fh.write(value) and the close of the handler: the member is added to the
\* directory the handler read and that directory is written at the end of the
\* file. When another handler has changed the archive in between, both wrote
\* to the same region of the file: the directory written last stands, and the
\* member's bytes are the thread's or a mixture (Corrupt)
ZipWriterClose(t) ==
    /\ zThread[t].pc = "write"
    /\ \E val \in IF zArchive = zThread[t].snap THEN {t} ELSE {t, Corrupt} :
          zArchive' = Append(zThread[t].snap, [key |-> zThread[t].key, val |-> val])
    /\ zPutOk' = [zPutOk EXCEPT ![zThread[t].key] = @ + 1]
    /\ zThread' = [zThread EXCEPT ![t] = ZipIdle]
    /\ UNCHANGED <<wvars, mvars, svars, sqlvars, rvars>>

InitZip ==
    /\ sBackend = "zip"
    /\ sMode = "auto"
    /\ sRaise = TRUE
    /\ sReadonly = FALSE
    /\ sStoreNone = TRUE
    /\ sDefaultTtl = 0
    /\ sData0 = EmptyStore
    /\ sData = EmptyStore
    /\ sWritten = {}
    /\ sRes = NoCall
    /\ sLastWrite = NoCall
    /\ sMeta = EmptyStore
    /\ now = 1
    /\ IdleWorker
    /\ IdleDrivers
    /\ NoDecorated

NextZip ==
    \/ \E t \in ZipThreads, k \in ZipKeys : ZipWriterCheck(t, k)
    \/ \E t \in ZipThreads : ZipWriterOpen(t)
    \/ \E t \in ZipThreads : ZipWriterClose(t)

SpecZip == InitZip /\ [][NextZip]_vars

\* ---------------------------------------- RedisStore on a shared server
\* BaseStore.get_key with the store's redis_prefix:
\* unquote(f"{prefix}/{key}".strip("/"))
RedisGetKey(p, k) == Unquote(Strip(p \o <<"/">> \o k))

\* RedisStore._write: con.set(key, value)
RedisPut(i, k) ==
    /\ rServer' = StoreWrite(rServer, RedisGetKey(rPrefix[i], k), i)
    /\ rRes' = RedisCall("put", i, k, {})
    /\ UNCHANGED <<wvars, mvars, svars, sqlvars, zvars, rPrefix>>

\* RedisStore._read: con.exists(key) and con.get(key)
RedisGet(i, k) ==
    /\ rRes' = RedisCall("get", i, k,
                         IF StoreExists(rServer, RedisGetKey(rPrefix[i], k))
                            THEN {rServer[RedisGetKey(rPrefix[i], k)]} ELSE {})
    /\ UNCHANGED <<wvars, mvars, svars, sqlvars, zvars, rPrefix, rServer>>

\* RedisStore._exists
RedisExists(i, k) ==
    /\ rRes' = RedisCall("exists", i, k,
                         IF StoreExists(rServer, RedisGetKey(rPrefix[i], k))
                            THEN {rServer[RedisGetKey(rPrefix[i], k)]} ELSE {})
    /\ UNCHANGED <<wvars, mvars, svars, sqlvars, zvars, rPrefix, rServer>>

\* RedisStore._iterate_keys without arguments: con.scan_iter("prefix/*")
RedisScan(p) == {key \in DOMAIN rServer : StartsWith(key, JoinRelpaths(RedisGetKey(p, <<>>)))}

RedisIterateKeys(i) ==
    /\ rRes' = RedisCall("iterate_keys", i, <<>>,
                         {rServer[key] : key \in RedisScan(rPrefix[i])})
    /\ UNCHANGED <<wvars, mvars, svars, sqlvars, zvars, rPrefix, rServer>>

InitRedisShared ==
    /\ sBackend = "redis"
    /\ sMode = "auto"
    /\ sRaise = TRUE
    /\ sReadonly = FALSE
    /\ sStoreNone = TRUE
    /\ sDefaultTtl = 0
    /\ sData0 = EmptyStore
    /\ sData = EmptyStore
    /\ sWritten = {}
    /\ sRes = NoCall
    /\ sLastWrite = NoCall
    /\ sMeta = EmptyStore
    /\ now = 1
    /\ IdleWorker
    /\ sqlRows = {}
    /\ sqlConn = [t \in SqlThreads |-> [open |-> FALSE, deleted |-> {}]]
    /\ sqlOpened = [t \in SqlThreads |-> 0]
    /\ sqlRes = SqlCall("none", 0, <<>>, "none", FALSE, {})
    /\ zArchive = <<>>
    /\ zThread = [t \in ZipThreads |-> ZipIdle]
    /\ zPutOk = [k \in ZipKeys |-> 0]
    /\ rPrefix \in RedisPrefixes
    /\ rServer = <<>>
    /\ rRes = RedisCall("none", 0, <<>>, {})
    /\ NoDecorated

NextRedisShared ==
    \/ \E i \in RedisStores, k \in RedisKeys : RedisPut(i, k)
    \/ \E i \in RedisStores, k \in RedisKeys : RedisGet(i, k)
    \/ \E i \in RedisStores, k \in RedisKeys : RedisExists(i, k)
    \/ \E i \in RedisStores : RedisIterateKeys(i)

SpecRedisShared == InitRedisShared /\ [][NextRedisShared]_vars

\* ------------------------------------------------------- claims: the store
\* C9: for every backend and serialization mode and every key never written,
\* get raises DoesNotExist when the effective raise_on_nonexist (the argument, or
\* else the store's default) is True and returns None when it is False, and exists
\* is False.
C9_MissingKeyPolicy ==
    /\ (sRes.op = "get" /\ sRes.key \notin sWritten) =>
          sRes.out = IF GetRaises(sRes.arg) THEN Raise("DoesNotExist") ELSE Return(PyNone)
    /\ (sRes.op = "exists" /\ sRes.key \notin sWritten) =>
          sRes.out = Return(PyBool(FALSE))

\* C10: stream of an absent key raises DoesNotExist exactly when the effective
\* raise_on_nonexist (the argument, or else the store's default) is True, and
\* yields nothing without an error when it is False.
C10_StreamSamePolicy ==
    (sRes.op = "stream" /\ ~StoreExists(sData, sRes.key)) =>
        /\ sRes.out = IF GetRaises(sRes.arg) THEN Raise("DoesNotExist") ELSE Return(PyNone)
        /\ sRes.items = <<>>

\* C11: last write wins. After put(k, v1) and put(k, v2) of values the mode can
\* serialize, get(k) returns v2 on the backends that overwrite (fs, memory, sql,
\* redis); on the archive backend the second put raises ReadOnlyError and get(k)
\* still returns what it returned for v1.
C11_LastWriteWins ==
    (/\ sRes.op = "get"
     /\ sLastWrite.op = "put"
     /\ sLastWrite.key = sRes.key
     /\ ToStore(sLastWrite.val, sMode).kind = "return"
     /\ StoreExists(sLastWrite.before, sRes.key)) =>
        IF sBackend = "zip"
           THEN /\ sLastWrite.out = Raise("ReadOnlyError")
                /\ sRes.out = GetOutcomeIn(sLastWrite.before, sRes.key, sRes.arg)
           ELSE /\ sLastWrite.out.kind = "return"
                /\ sRes.out = Return(sLastWrite.val)

\* C12: on the memory, sql and redis backends, after put(k, v, ttl=T) at time t,
\* whether k is new or overwritten, get(k) returns v at every time before t + T and
\* get(k, raise_on_nonexist=False) returns None at every time after t + T.
C12_TtlFromLastPut ==
    (/\ sRes.op = "get"
     /\ sLastWrite.op = "put"
     /\ sLastWrite.key = sRes.key
     /\ sLastWrite.out.kind = "return"
     /\ sLastWrite.ttl > 0
     /\ sBackend \in TtlBackends) =>
        /\ sRes.at < sLastWrite.at + sLastWrite.ttl =>
              sRes.out = FromStore(ToStore(sLastWrite.val, sMode).val, sMode)
        /\ (sRes.at > sLastWrite.at + sLastWrite.ttl /\ sRes.arg = "false") =>
              sRes.out = Return(PyNone)

\* C13: on a store with readonly=True no operation changes the backend: put, pop,
\* delete and touch raise ReadOnlyError, open raises it for every mode that permits
\* writing (w, a, x, +), and the contents stay the initial contents.
C13_ReadonlyNeverChanges ==
    sReadonly =>
        /\ sData = sData0
        /\ sRes.op \in {"put", "pop", "delete", "touch"} => sRes.out = Raise("ReadOnlyError")
        /\ (sRes.op = "open" /\ sRes.arg # "rb") => sRes.out = Raise("ReadOnlyError")

\* C14: pop(k) is get(k) followed by delete(k) of the same key: it raises what get
\* raises, else what the deletion raises, else it returns what get(k) with the same
\* arguments returns, and then exists(k) is False and
\* get(k, raise_on_nonexist=False) is None; no other key is affected.
C14_PopIsGetThenDelete ==
    (sRes.op = "pop" /\ ~sReadonly) =>
        LET k == sRes.key
            g == GetOutcomeIn(sRes.before, k, sRes.arg)
            d == BackendDelete(sBackend, sRes.before, k)
        IN  /\ sRes.out = IF g.kind = "raise" THEN g ELSE IF d.kind = "raise" THEN d ELSE g
            /\ sRes.out.kind = "return" =>
                  /\ ~StoreExists(sData, k)
                  /\ GetOutcome(k, "false") = Return(PyNone)
            /\ \A j \in StoreKeys \ {k} :
                  /\ StoreExists(sData, j) = StoreExists(sRes.before, j)
                  /\ StoreExists(sData, j) => sData[j] = sRes.before[j]

\* C15: ReadOnlyError is never silenced. Every mutating call rejected because the
\* store is read-only (put, pop, delete, touch, open for writing) or because the
\* archive is append-only (delete, overwriting put) raises ReadOnlyError, also
\* delete(k, ignore_errors=True) on the archive.
C15_ReadOnlyErrorPropagates ==
    LET k == sRes.key
        rejected ==
            \/ sReadonly /\ sRes.op \in {"put", "pop", "delete"}
            \/ sReadonly /\ sRes.op = "touch"
                         /\ ~(sBackend = "zip" /\ StoreExists(sRes.before, k))
            \/ sReadonly /\ sRes.op = "open" /\ sRes.arg \in {"wb", "ab"}
            \/ sBackend = "zip" /\ sRes.op = "delete"
            \/ sBackend = "zip" /\ sRes.op = "put" /\ StoreExists(sRes.before, k)
                                /\ ToStore(sRes.val, sMode).kind = "return"
    IN  rejected => sRes.out = Raise("ReadOnlyError")

\* C16: serialization round trip. For every value among bytes, text (also text that
\* is valid JSON), numbers, booleans, None and maps, and every mode (raw for bytes
\* only), from_store(to_store(v, mode), mode) is v with the same type.
C16_RoundTrip ==
    (sRes.op = "roundtrip" /\ (sMode = "raw" => sRes.val.t = "bytes")) =>
        sRes.out = Return(sRes.val)

\* C17: the cache decorator. On a call whose computed key the store holds, the
\* cached value is returned and the wrapped function is not invoked; otherwise the
\* wrapped function is invoked once, its result is stored under the key and
\* returned. So, with no expiry or deletion, the function runs at most once per key.
C17_CacheProtocol ==
    /\ (sRes.op = "cached" /\ sRes.arg = "key") =>
          IF StoreExists(sRes.before, sRes.key)
             THEN /\ fnRan = 0
                  /\ sRes.out.kind = "return"
                  /\ sRes.out = FromStore(sRes.before[sRes.key], sMode)
             ELSE /\ fnRan = 1
                  /\ sRes.out = Return(sRes.val)
                  /\ StoreExists(sData, sRes.key)
                  /\ ToStore(sRes.val, sMode) = Return(sData[sRes.key])
    /\ \A kf \in DecKeys : ~kf.none => fnRuns[kf] <= 1

C19_KeysNormalized ==
    (/\ sLastWrite.op = "put"
     /\ sLastWrite.out.kind = "return"
     /\ Normal(sRes.key) = Normal(sLastWrite.key)) =>
        /\ sRes.op = "get" => sRes.out = Return(sLastWrite.val)
        /\ sRes.op = "exists" => sRes.out = Return(PyBool(TRUE))

\* C20: sub-path confinement. store / p yields a new store whose key k is the
\* parent's key p/k, and upward traversal is rejected: no key given to a store
\* resolves to an entry outside the base location of the store.
C20_Confined ==
    /\ sRes.op = "truediv" => sRes.out.kind = "return"
    /\ \A a \in sWritten : ~Outside(sBackend, a)
    /\ (sRes.op = "put" /\ Outside(sBackend, BackendKey(sBackend, sRes.key))) =>
          sRes.out.kind = "raise"

\* C21: iterate_keys yields the same keys on every backend. For a prefix it
\* yields exactly the stored keys below the path segment of the prefix, minus the
\* excluded ones, and every backend that can hold the stored keys yields that set.
C21_SameListing ==
    sRes.op = "iterate_keys" =>
        LET excl == ExcludePrefix(sRes.arg)
            below == {k \in DOMAIN sRes.before :
                         /\ sRes.key = NoPrefix \/ StartsWith(k, sRes.key \o <<"/">>)
                         /\ excl = NoPrefix \/ ~StartsWith(k, excl)}
        IN  /\ sRes.out.kind = "return"
            /\ {sRes.items[i] : i \in 1..Len(sRes.items)} = below
            /\ \A b \in ListBackends :
                  (b = "fs" => ~FsClash(DOMAIN sRes.before)) =>
                      IterateKeysOutcome(b, sRes.before, sRes.key, excl) =
                          [out |-> sRes.out, keys |-> below]

\* C22: on the memory backend a key written without a ttl never expires, whatever
\* happened to it before: a get after the put, at any later time, returns the value.
C22_NoTtlNeverExpires ==
    (/\ sBackend = "memory"
     /\ sRes.op = "get"
     /\ sLastWrite.op = "put"
     /\ sLastWrite.ttl = 0
     /\ sLastWrite.out.kind = "return"
     /\ sRes.key = sLastWrite.key) =>
        sRes.out = Return(sLastWrite.val)

\* C23: the expiry is checked before every read, exists and stat on the memory and
\* the sql backend: once the ttl of a key has elapsed, exists returns False and info
\* fails as for a missing key, whether or not get has been called since.
C23_ExpiryBeforeExists ==
    (/\ sBackend \in {"memory", "sql"}
     /\ sLastWrite.op = "put"
     /\ sLastWrite.out.kind = "return"
     /\ sLastWrite.ttl > 0
     /\ sRes.key = sLastWrite.key
     /\ sRes.at > sLastWrite.at + sLastWrite.ttl) =>
        /\ sRes.op = "exists" => sRes.out = Return(PyBool(FALSE))
        /\ sRes.op = "info" => sRes.out = Raise("DoesNotExist")

\* C24: the ttl argument of put takes precedence over the store's default_ttl, an
\* explicit 0 included (no expiry for this key); default_ttl is used only when no
\* ttl is passed, and a default_ttl of 0 means no expiry. Stated on what the backend
\* keeps for the key right after the put.
C24_TtlPrecedence ==
    (sRes.op = "put" /\ sRes.out.kind = "return" /\ now = sRes.at) =>
        LET expected == IF sRes.ttl = NoTtl THEN sDefaultTtl ELSE sRes.ttl
            entry == MetaOf(sMeta, BackendKey(sBackend, sRes.key))
        IN  /\ sBackend = "redis" =>
                  entry.exp = IF expected = 0 THEN 0 ELSE sRes.at + expected
            /\ sBackend = "sql" => entry.ttl = expected
            /\ (sBackend = "memory" /\ expected > 0) => entry.exp = sRes.at + expected

\* C25: every key the mirror handles increments exactly one of mirrored and
\* skipped, exactly once: after a run without errors mirrored + skipped is the
\* number of source keys enumerated, the done count of the pool, under every
\* interleaving of the consumers.
C25_MirrorCountsAddUp ==
    (mode = "mirror" /\ runState = "returned") =>
        /\ mirrored + skipped = nTasks
        /\ mirrored + skipped = counter["done"]

\* C26: a key whose copy failed leaves no trace in the target: when reading
\* the source raised inside handle_task, a key the target did not hold before
\* the run does not exist in the target afterwards (no empty or partial value)
C26_FailedCopyLeavesNothing ==
    \A k \in failed : k \notin DOMAIN target0 => ~StoreExists(target, k)

\* C27: each task of the source is claimed by one consumer and passed to the
\* handler once: no task is held by two consumers, none is handled twice, a
\* task a consumer has claimed is no longer in the queue, and when run() has
\* returned every task was handled once and the queue holds no task
C27_HandledOnce ==
    mode = "plain" =>
        /\ \A i \in 1..nTasks :
              /\ handled[i] <= 1
              /\ Cardinality({c \in Consumers : cur[c] = i}) <= 1
              /\ handled[i] = 1 => \A n \in 1..Len(queue) : queue[n] # i
        /\ runState = "returned" =>
              /\ \A i \in 1..nTasks : handled[i] = 1
              /\ \A n \in 1..Len(queue) : queue[n] = Sentinel

C27_Witness ==
    /\ mode = "plain"
    /\ runState = "returned"
    /\ nCons = MaxConsumers
    /\ nTasks = MaxTasks
    /\ counter["errors"] > 0
    /\ counter["done"] > 0
    /\ \A i \in 1..nTasks : handled[i] = 1

\* queue_task(): the tasks put into the queue so far; prodIdx counts the tasks
\* taken from the source, the last of which is not yet put while queue_task runs
Enqueued == IF pc[Producer] \in {"q_pending", "put"} THEN prodIdx - 1 ELSE prodIdx

\* C28: the status counters are consistent in every reachable state of a run:
\* pending >= 0 and pending + done + errors is the number of tasks enqueued so
\* far (a task whose queue_task call is under way may count or not)
C28_CountersConsistent ==
    mode = "plain" =>
        /\ counter["pending"] >= 0
        /\ counter["pending"] + counter["done"] + counter["errors"]
              \in {Enqueued, prodIdx}

\* the sentinels of a run: those in the queue and those a consumer has taken
\* out and not yet put back
SentinelCount ==
    Cardinality({n \in 1..Len(queue) : queue[n] = Sentinel})
        + Cardinality({c \in Consumers : pc[c] = "reput"})

\* C29: the sentinel protocol. The producer enqueues one sentinel, after the
\* last task; a consumer that dequeues it puts it back and leaves only if
\* pending < 1. So there is at most one sentinel at any time, it is behind
\* every queued task, and while a consumer has left through the sentinel no
\* task is queued and no sibling is inside handle_task
C29_SentinelProtocol ==
    mode = "plain" =>
        /\ SentinelCount <= 1
        /\ SentinelCount = 1 => pc[Producer] = "done" /\ prodIdx = nTasks
        /\ \A n \in 1..Len(queue) : queue[n] = Sentinel => n = Len(queue)
        /\ \A c \in Consumers : pc[c] = "exit" =>
              /\ counter["pending"] < 1
              /\ \A n \in 1..Len(queue) : queue[n] = Sentinel
              /\ \A d \in Consumers \ {c} : pc[d] \notin HandlerPcs /\ cur[d] = 0

C29_Witness ==
    /\ mode = "plain"
    /\ nCons = MaxConsumers
    /\ nTasks = MaxTasks
    /\ \A c \in Consumers : pc[c] = "exit"
    /\ queue = <<Sentinel>>
    /\ counter["done"] + counter["errors"] = nTasks

\* C30: after a run that failed with an exception e the status records it:
\* status.exc is the text of e and running is False; after a run that returned
\* status.exc is empty (None, as before the run), not the text "None"
C30_StatusRecordsException ==
    mode = "plain" =>
        /\ runState = "raised" => status.exc = "exc" /\ ~status.running
        /\ runState = "returned" => status.exc = "unset" /\ ~status.running

C32_DeserFuncIsLast ==
    sRes.op = "from_store_func" => sRes.out = DeserializationFunc(sRes.arg, sRes.val)

\* C33: the stream emulation of the backends without file handles (sql, redis):
\* after a handle opened for writing (w) or appending (a) is closed the key
\* holds everything written through it, after the value it held before for
\* mode a; a handle opened for reading leaves the backend as it was
C33_BufferThenFlush ==
    (sRes.op = "open" /\ sBackend \in {"redis", "sql"} /\ ~sReadonly) =>
        LET k == sRes.key
            before == sRes.before
        IN  /\ sRes.arg = "wb" => StoreExists(sData, k) /\ sData[k] = Written
            /\ sRes.arg = "ab" =>
                  /\ StoreExists(sData, k)
                  /\ sData[k] = IF StoreExists(before, k) THEN Appended(before[k])
                                 ELSE Written
            /\ sRes.arg = "rb" => sData = before

\* C34: iterate_keys() without arguments yields the keys k for which exists(k)
\* is True, each once: every key it yields exists, also after a ttl has
\* elapsed, and every key that exists is yielded (exists asked at the time of
\* the listing)
C34_ListingIsExisting ==
    (sRes.op = "iterate_keys" /\ sRes.key = NoPrefix /\ sRes.arg = "unset"
        /\ now = sRes.at) =>
        /\ sRes.out.kind = "return"
        /\ {sRes.items[i] : i \in 1..Len(sRes.items)}
              = {k \in ListKeys : StoreExists(DataAfterExists(BackendKey(sBackend, k)),
                                              BackendKey(sBackend, k))}
        /\ \A i, j \in 1..Len(sRes.items) : sRes.items[i] = sRes.items[j] => i = j

\* C35: on the relational backend a deletion is committed before delete()
\* returns: once delete(k) has returned in one thread, no connection observes
\* k, neither the cached connection of any thread (get, exists) nor the
\* connection iterate_keys opens
C35_DeleteCommitted ==
    sqlRes.op = "delete" =>
        /\ \A u \in SqlThreads : sqlRes.key \notin Visible(u)
        /\ sqlRes.key \notin sqlRows

\* C38: the relational driver uses one physical connection per thread: no
\* thread ever opens a second connection, and every driver operation (read,
\* write, delete, exists, key listing) runs on the thread's cached connection
C38_OneConnectionPerThread ==
    /\ \A t \in SqlThreads : sqlOpened[t] <= 1
    /\ sqlRes.op # "none" => sqlRes.conn = "cached"

\* C36: the archive never holds two members for one key: a write to a key
\* that exists is refused, also when two threads put the same new key at the
\* same time, so that at most one put of a key ever succeeds
C36_NoDuplicateEntry ==
    /\ \A i, j \in 1..Len(zArchive) : zArchive[i].key = zArchive[j].key => i = j
    /\ \A k \in ZipKeys : zPutOk[k] <= 1

\* C37: two stores with different key prefixes on one redis server are
\* isolated, also when one prefix is a path prefix of the other ('a' and
\* 'a/b'): get, exists and iterate_keys of one store never observe a value
\* that was written through the other
C37_NamespaceIsolation ==
    rRes.op \in {"get", "exists", "iterate_keys"} => rRes.seen \subseteq {rRes.store}

\* C39: a cache hit of a decorated function returns the value, of the same
\* type, that the call which populated the cache returned, for every type of
\* result (text, bytes, numbers, None)
C39_HitEqualsPopulatingCall ==
    (sRes.op = "cached" /\ sRes.arg = "key" /\ fnRan = 0
        /\ sLastWrite.op = "put" /\ sLastWrite.key = sRes.key
        /\ sLastWrite.out.kind = "return" /\ sStoreNone) =>
        sRes.out = Return(sLastWrite.val)

\* C40: put(k, v) writes every value v that is not None, whatever the
\* store_none_values setting is; the setting only decides whether None is
\* stored: put does nothing only when v is None and the setting is off
C40_PutWritesNonNone ==
    (sRes.op = "put" /\ ~sReadonly /\ sRes.out.kind = "return") =>
        LET a == BackendKey(sBackend, sRes.key)
        IN  IF sRes.val = PyNone /\ ~sStoreNone
               THEN sData = sRes.before
               ELSE /\ StoreExists(sData, a)
                    /\ sData[a] = ToStore(sRes.val, sMode).val

====
